---------------------------- MODULE Spec2Model ----------------------------
(***************************************************************************)
(* The similarity retriever of src/rag/rag_pipeline.py (class RAGPipeline) *)
(* as a state machine.  A text is a sequence of one-character strings, so  *)
(* that lower-casing and whitespace splitting are computed, not assumed.   *)
(* A float produced by intersection / union is kept as the reduced         *)
(* fraction <<numerator, denominator>>: IEEE division is correctly         *)
(* rounded, so two such quotients of small integers are equal (or ordered) *)
(* as floats exactly when the fractions are.                               *)
(***************************************************************************)
EXTENDS Integers, Sequences, FiniteSets, TLC

VARIABLES documents, metadata, op, query, category, top_k, results,
          attributes, document, threshold, relevant, batch, similarity,
          returned,
          result, conversation_history, verbose, faults,
          classified,
          information_text,
          verification,
          execution_log,
          handled,
          succeeded,
          atomic_add,
          writer,
          reader,
          gui

vars == <<documents, metadata, op, query, category, top_k, results,
          attributes, document, threshold, relevant, batch, similarity,
          returned,
          result, conversation_history, verbose, faults,
          classified,
          information_text,
          verification,
          execution_log,
          handled,
          succeeded,
          atomic_add,
          writer,
          reader,
          gui>>

\* the coordinator's part of the state: the dict process_query returned, the
\* conversation history, and the arguments and faults of the last call
coordinator_vars == <<result, conversation_history, verbose, faults, classified,
                      information_text,
                      verification,
                      execution_log,
                      handled,
                      succeeded,
                      atomic_add,
                      writer,
                      reader,
                      gui>>

(***************************************************************************)
(* Bounds of the model.                                                    *)
(***************************************************************************)
\* add_document is called at most MaxAdded times in a behaviour
MaxAdded == 1
\* the largest top_k a caller passes, short of one that exceeds the corpus size
MaxTopK == 5

(***************************************************************************)
(* The built-in corpus, RAGPipeline._load_sample_documents.                *)
(***************************************************************************)
\* rag_pipeline.py:36  BS Electrical Engineering admission requirements: Minimum GP...
SampleText1 ==
    << "B","S"," ","E","l","e","c","t","r","i","c","a","l"," ","E","n","g","i","n","e","e","r","i",
       "n","g"," ","a","d","m","i","s","s","i","o","n"," ","r","e","q","u","i","r","e","m","e","n",
       "t","s",":"," ","M","i","n","i","m","u","m"," ","G","P","A"," ","3",".","2",","," ","S","A",
       "T"," ","s","c","o","r","e"," ","1","4","0","0","+",","," ","A","C","T"," ","s","c","o","r",
       "e"," ","3","2","+",","," ","c","o","m","p","l","e","t","i","o","n"," ","o","f"," ","p","h",
       "y","s","i","c","s"," ","a","n","d"," ","c","h","e","m","i","s","t","r","y"," ","c","o","u",
       "r","s","e","s",","," ","a","p","p","l","i","c","a","t","i","o","n"," ","d","e","a","d","l",
       "i","n","e"," ","M","a","r","c","h"," ","3","1" >>

\* rag_pipeline.py:41  BS Computer Science eligibility criteria: Minimum GPA 3.0, s...
SampleText2 ==
    << "B","S"," ","C","o","m","p","u","t","e","r"," ","S","c","i","e","n","c","e"," ","e","l","i",
       "g","i","b","i","l","i","t","y"," ","c","r","i","t","e","r","i","a",":"," ","M","i","n","i",
       "m","u","m"," ","G","P","A"," ","3",".","0",","," ","s","t","r","o","n","g"," ","m","a","t",
       "h","e","m","a","t","i","c","a","l"," ","f","o","u","n","d","a","t","i","o","n",","," ","S",
       "A","T"," ","1","3","5","0","+",","," ","A","C","T"," ","3","1","+",","," ","a","d","m","i",
       "s","s","i","o","n"," ","t","e","s","t"," ","r","e","q","u","i","r","e","d",","," ","r","o",
       "l","l","i","n","g"," ","a","d","m","i","s","s","i","o","n"," ","u","n","t","i","l"," ","s",
       "e","a","t","s"," ","f","i","l","l" >>

\* rag_pipeline.py:46  General admission process: Online application, transcripts, ...
SampleText3 ==
    << "G","e","n","e","r","a","l"," ","a","d","m","i","s","s","i","o","n"," ","p","r","o","c","e",
       "s","s",":"," ","O","n","l","i","n","e"," ","a","p","p","l","i","c","a","t","i","o","n",",",
       " ","t","r","a","n","s","c","r","i","p","t","s",","," ","t","e","s","t"," ","s","c","o","r",
       "e","s",","," ","e","s","s","a","y",","," ","2"," ","r","e","c","o","m","m","e","n","d","a",
       "t","i","o","n"," ","l","e","t","t","e","r","s",","," ","a","p","p","l","i","c","a","t","i",
       "o","n"," ","f","e","e"," ","$","5","0",","," ","d","e","c","i","s","i","o","n"," ","w","i",
       "t","h","i","n"," ","6"," ","w","e","e","k","s" >>

\* rag_pipeline.py:53  Final exam schedule: Fall semester finals held December 10-2...
SampleText4 ==
    << "F","i","n","a","l"," ","e","x","a","m"," ","s","c","h","e","d","u","l","e",":"," ","F","a",
       "l","l"," ","s","e","m","e","s","t","e","r"," ","f","i","n","a","l","s"," ","h","e","l","d",
       " ","D","e","c","e","m","b","e","r"," ","1","0","-","2","0",","," ","S","p","r","i","n","g",
       " ","s","e","m","e","s","t","e","r"," ","f","i","n","a","l","s"," ","h","e","l","d"," ","M",
       "a","y"," ","5","-","1","5",","," ","s","u","m","m","e","r"," ","e","x","a","m","s"," ","J",
       "u","n","e"," ","2","0","-","J","u","l","y"," ","5",","," ","e","x","a","m"," ","s","c","h",
       "e","d","u","l","e"," ","p","o","s","t","e","d"," ","2"," ","w","e","e","k","s"," ","b","e",
       "f","o","r","e" >>

\* rag_pipeline.py:58  Grading policy: A (90-100), B (80-89), C (70-79), D (60-69),...
SampleText5 ==
    << "G","r","a","d","i","n","g"," ","p","o","l","i","c","y",":"," ","A"," ","(","9","0","-","1",
       "0","0",")",","," ","B"," ","(","8","0","-","8","9",")",","," ","C"," ","(","7","0","-","7",
       "9",")",","," ","D"," ","(","6","0","-","6","9",")",","," ","F"," ","(","b","e","l","o","w",
       " ","6","0",")",","," ","G","P","A"," ","c","a","l","c","u","l","a","t","i","o","n"," ","u",
       "s","e","s"," ","4",".","0"," ","s","c","a","l","e",","," ","p","l","u","s","/","m","i","n",
       "u","s"," ","g","r","a","d","i","n","g"," ","f","o","r"," ","A","/","B","/","C"," ","g","r",
       "a","d","e","s",","," ","g","r","a","d","e"," ","a","p","p","e","a","l","s"," ","w","i","t",
       "h","i","n"," ","3","0"," ","d","a","y","s" >>

\* rag_pipeline.py:63  Exam retake policy: Students can retake courses for grade im...
SampleText6 ==
    << "E","x","a","m"," ","r","e","t","a","k","e"," ","p","o","l","i","c","y",":"," ","S","t","u",
       "d","e","n","t","s"," ","c","a","n"," ","r","e","t","a","k","e"," ","c","o","u","r","s","e",
       "s"," ","f","o","r"," ","g","r","a","d","e"," ","i","m","p","r","o","v","e","m","e","n","t",
       ","," ","o","n","l","y"," ","l","a","t","e","s","t"," ","g","r","a","d","e"," ","c","o","u",
       "n","t","s"," ","t","o","w","a","r","d"," ","G","P","A",","," ","2"," ","r","e","t","a","k",
       "e","s"," ","p","e","r"," ","c","o","u","r","s","e"," ","m","a","x","i","m","u","m",","," ",
       "m","u","s","t"," ","w","a","i","t"," ","1"," ","s","e","m","e","s","t","e","r"," ","b","e",
       "t","w","e","e","n"," ","r","e","t","a","k","e","s" >>

\* rag_pipeline.py:70  Merit scholarships: Full tuition coverage for students with ...
SampleText7 ==
    << "M","e","r","i","t"," ","s","c","h","o","l","a","r","s","h","i","p","s",":"," ","F","u","l",
       "l"," ","t","u","i","t","i","o","n"," ","c","o","v","e","r","a","g","e"," ","f","o","r"," ",
       "s","t","u","d","e","n","t","s"," ","w","i","t","h"," ","3",".","8","+"," ","G","P","A"," ",
       "a","n","d"," ","1","5","0","0","+"," ","S","A","T"," ","s","c","o","r","e",","," ","h","a",
       "l","f"," ","t","u","i","t","i","o","n"," ","f","o","r"," ","3",".","5","+"," ","G","P","A",
       " ","a","n","d"," ","1","4","0","0","+"," ","S","A","T",","," ","a","u","t","o","m","a","t",
       "i","c","a","l","l","y"," ","a","w","a","r","d","e","d"," ","t","o"," ","e","l","i","g","i",
       "b","l","e"," ","a","p","p","l","i","c","a","n","t","s" >>

\* rag_pipeline.py:75  Need-based financial aid: Available for students with FAFSA ...
SampleText8 ==
    << "N","e","e","d","-","b","a","s","e","d"," ","f","i","n","a","n","c","i","a","l"," ","a","i",
       "d",":"," ","A","v","a","i","l","a","b","l","e"," ","f","o","r"," ","s","t","u","d","e","n",
       "t","s"," ","w","i","t","h"," ","F","A","F","S","A"," ","E","F","C"," ","b","e","l","o","w",
       " ","5","0","0","0","0",","," ","g","r","a","n","t","s"," ","u","p"," ","t","o"," ","$","1",
       "0","0","0","0","/","y","e","a","r",","," ","l","o","w","-","i","n","t","e","r","e","s","t",
       " ","l","o","a","n","s"," ","3",".","5","%"," ","A","P","R",","," ","w","o","r","k","-","s",
       "t","u","d","y"," ","j","o","b","s"," ","$","1","5","/","h","o","u","r" >>

\* rag_pipeline.py:80  Department scholarships: Engineering scholarship $5000/year ...
SampleText9 ==
    << "D","e","p","a","r","t","m","e","n","t"," ","s","c","h","o","l","a","r","s","h","i","p","s",
       ":"," ","E","n","g","i","n","e","e","r","i","n","g"," ","s","c","h","o","l","a","r","s","h",
       "i","p"," ","$","5","0","0","0","/","y","e","a","r"," ","f","o","r"," ","t","o","p"," ","s",
       "t","u","d","e","n","t","s",","," ","b","u","s","i","n","e","s","s"," ","s","c","h","o","o",
       "l"," ","s","c","h","o","l","a","r","s","h","i","p"," ","$","7","5","0","0","/","y","e","a",
       "r",","," ","s","c","i","e","n","c","e"," ","s","c","h","o","l","a","r","s","h","i","p"," ",
       "$","6","0","0","0","/","y","e","a","r",","," ","s","e","p","a","r","a","t","e"," ","a","p",
       "p","l","i","c","a","t","i","o","n"," ","r","e","q","u","i","r","e","d" >>

\* rag_pipeline.py:87  Academic standing: Maintain minimum 2.0 GPA to remain in goo...
SampleText10 ==
    << "A","c","a","d","e","m","i","c"," ","s","t","a","n","d","i","n","g",":"," ","M","a","i","n",
       "t","a","i","n"," ","m","i","n","i","m","u","m"," ","2",".","0"," ","G","P","A"," ","t","o",
       " ","r","e","m","a","i","n"," ","i","n"," ","g","o","o","d"," ","s","t","a","n","d","i","n",
       "g",","," ","b","e","l","o","w"," ","2",".","0"," ","G","P","A"," ","r","e","s","u","l","t",
       "s"," ","i","n"," ","a","c","a","d","e","m","i","c"," ","p","r","o","b","a","t","i","o","n",
       ","," ","d","i","s","m","i","s","s","a","l"," ","a","f","t","e","r"," ","2"," ","c","o","n",
       "s","e","c","u","t","i","v","e"," ","s","e","m","e","s","t","e","r","s"," ","o","n"," ","p",
       "r","o","b","a","t","i","o","n" >>

\* rag_pipeline.py:92  Course registration: Priority registration for seniors, then...
SampleText11 ==
    << "C","o","u","r","s","e"," ","r","e","g","i","s","t","r","a","t","i","o","n",":"," ","P","r",
       "i","o","r","i","t","y"," ","r","e","g","i","s","t","r","a","t","i","o","n"," ","f","o","r",
       " ","s","e","n","i","o","r","s",","," ","t","h","e","n"," ","j","u","n","i","o","r","s",",",
       " ","s","o","p","h","o","m","o","r","e","s",","," ","f","r","e","s","h","m","e","n","."," ",
       "R","e","g","i","s","t","r","a","t","i","o","n"," ","o","p","e","n","s"," ","2"," ","w","e",
       "e","k","s"," ","b","e","f","o","r","e"," ","s","e","m","e","s","t","e","r","."," ","M","a",
       "x","i","m","u","m"," ","1","8"," ","c","r","e","d","i","t"," ","h","o","u","r","s"," ","p",
       "e","r"," ","s","e","m","e","s","t","e","r","." >>

\* rag_pipeline.py:97  Prerequisite policy: Students must complete prerequisite cou...
SampleText12 ==
    << "P","r","e","r","e","q","u","i","s","i","t","e"," ","p","o","l","i","c","y",":"," ","S","t",
       "u","d","e","n","t","s"," ","m","u","s","t"," ","c","o","m","p","l","e","t","e"," ","p","r",
       "e","r","e","q","u","i","s","i","t","e"," ","c","o","u","r","s","e","s"," ","w","i","t","h",
       " ","C"," ","g","r","a","d","e"," ","o","r"," ","h","i","g","h","e","r",","," ","p","r","e",
       "r","e","q","u","i","s","i","t","e"," ","w","a","i","v","e","r","s"," ","a","v","a","i","l",
       "a","b","l","e"," ","w","i","t","h"," ","d","e","p","a","r","t","m","e","n","t"," ","c","h",
       "a","i","r"," ","a","p","p","r","o","v","a","l",","," ","v","e","r","i","f","i","e","d"," ",
       "t","h","r","o","u","g","h"," ","c","o","u","r","s","e"," ","h","i","s","t","o","r","y"," ",
       "s","y","s","t","e","m" >>

\* rag_pipeline.py:102  General education requirements: All students must complete 3...
SampleText13 ==
    << "G","e","n","e","r","a","l"," ","e","d","u","c","a","t","i","o","n"," ","r","e","q","u","i",
       "r","e","m","e","n","t","s",":"," ","A","l","l"," ","s","t","u","d","e","n","t","s"," ","m",
       "u","s","t"," ","c","o","m","p","l","e","t","e"," ","3","0"," ","c","r","e","d","i","t"," ",
       "h","o","u","r","s"," ","i","n"," ","g","e","n","e","r","a","l"," ","e","d","u","c","a","t",
       "i","o","n"," ","i","n","c","l","u","d","i","n","g"," ","E","n","g","l","i","s","h",","," ",
       "M","a","t","h","e","m","a","t","i","c","s",","," ","S","c","i","e","n","c","e",","," ","S",
       "o","c","i","a","l"," ","S","t","u","d","i","e","s",","," ","H","u","m","a","n","i","t","i",
       "e","s","."," ","S","p","e","c","i","f","i","c"," ","c","o","u","r","s","e","s"," ","l","i",
       "s","t","e","d"," ","i","n"," ","c","a","t","a","l","o","g","." >>

\* rag_pipeline.py:107  Degree completion: Bachelor's degree requires 120 credit hou...
SampleText14 ==
    << "D","e","g","r","e","e"," ","c","o","m","p","l","e","t","i","o","n",":"," ","B","a","c","h",
       "e","l","o","r","'","s"," ","d","e","g","r","e","e"," ","r","e","q","u","i","r","e","s"," ",
       "1","2","0"," ","c","r","e","d","i","t"," ","h","o","u","r","s"," ","m","i","n","i","m","u",
       "m",","," ","G","P","A"," ","2",".","0"," ","o","r"," ","a","b","o","v","e",","," ","c","o",
       "m","p","l","e","t","i","o","n"," ","o","f"," ","a","l","l"," ","p","r","o","g","r","a","m",
       " ","a","n","d"," ","g","e","n","e","r","a","l"," ","e","d","u","c","a","t","i","o","n"," ",
       "r","e","q","u","i","r","e","m","e","n","t","s",","," ","m","a","x","i","m","u","m"," ","7",
       " ","y","e","a","r","s"," ","t","o"," ","c","o","m","p","l","e","t","e" >>

sample_documents ==
    <<
    [text |-> SampleText1, category |-> "admission", program |-> "BS Electrical Engineering"],
    [text |-> SampleText2, category |-> "admission", program |-> "BS Computer Science"],
    [text |-> SampleText3, category |-> "admission", program |-> "General"],
    [text |-> SampleText4, category |-> "exam", topic |-> "Exam Schedule"],
    [text |-> SampleText5, category |-> "exam", topic |-> "Grading Policy"],
    [text |-> SampleText6, category |-> "exam", topic |-> "Retake Policy"],
    [text |-> SampleText7, category |-> "scholarship", scholarship_type |-> "Merit-Based"],
    [text |-> SampleText8, category |-> "scholarship", scholarship_type |-> "Need-Based"],
    [text |-> SampleText9, category |-> "scholarship", scholarship_type |-> "Department-Specific"],
    [text |-> SampleText10, category |-> "academic_policy", policy |-> "Academic Standing"],
    [text |-> SampleText11, category |-> "academic_policy", policy |-> "Registration"],
    [text |-> SampleText12, category |-> "academic_policy", policy |-> "Prerequisites"],
    [text |-> SampleText13, category |-> "academic_policy", policy |-> "Gen Ed Requirements"],
    [text |-> SampleText14, category |-> "academic_policy", policy |-> "Degree Requirements"]
    >>


\* 'What is the eligibility for BS Electrical Engineering?'
QueryEligibility ==
    << "W","h","a","t"," ","i","s"," ","t","h","e"," ","e","l","i","g","i","b","i","l","i","t","y",
       " ","f","o","r"," ","B","S"," ","E","l","e","c","t","r","i","c","a","l"," ","E","n","g","i",
       "n","e","e","r","i","n","g","?" >>

\* 'zzz'
QueryNoOverlap ==
    << "z","z","z" >>

\* 'GPA'
QueryGPA ==
    << "G","P","A" >>

\* 'The  a'
TextStopWords ==
    << "T","h","e"," "," ","a" >>

\* 'Exam\thall EXAM the'
TextExamHall ==
    << "E","x","a","m","\t","h","a","l","l"," ","E","X","A","M"," ","t","h","e" >>

\* 'minimum GPA'
QueryMinimumGPA ==
    << "m","i","n","i","m","u","m"," ","G","P","A" >>

\* 'Minimum GPA to maintain good standing is 2.0'
TextGoodStanding ==
    << "M","i","n","i","m","u","m"," ","G","P","A"," ","t","o"," ","m","a","i","n","t","a","i","n",
       " ","g","o","o","d"," ","s","t","a","n","d","i","n","g"," ","i","s"," ","2",".","0" >>

\* 'Scholarship deadlines vary by department'
TextDeadlines ==
    << "S","c","h","o","l","a","r","s","h","i","p"," ","d","e","a","d","l","i","n","e","s"," ","v",
       "a","r","y"," ","b","y"," ","d","e","p","a","r","t","m","e","n","t" >>

\* 'BS Electrical Engineering admission'
TextSelfSimilar ==
    << "B","S"," ","E","l","e","c","t","r","i","c","a","l"," ","E","n","g","i","n","e","e","r","i",
       "n","g"," ","a","d","m","i","s","s","i","o","n" >>

\* 'hall the EXAM  exam Hall'
TextHallExam ==
    << "h","a","l","l"," ","t","h","e"," ","E","X","A","M"," "," ","e","x","a","m"," ","H","a","l",
       "l" >>

(***************************************************************************)
(* Inputs                                                                  *)
(***************************************************************************)
Queries == {QueryEligibility, QueryNoOverlap, QueryGPA, TextStopWords, TextExamHall}

Categories == {"exam", "academic_policy", "Exam"}

\* def retrieve(self, query, top_k: int = 3)
DefaultTopK == 3

\* a negative top_k, none, one, the default, a larger one, and more than the corpus holds
TopKs == {0 - 1, 0, 1, DefaultTopK, MaxTopK, Len(sample_documents) + MaxAdded + 1}

NewTexts == {TextExamHall, TextStopWords}

\* the metadata argument of add_document: absent (None) or a dict
EmptyDict == [k \in {} |-> ""]

MetadataArgs ==
    { [given |-> FALSE, dict |-> EmptyDict],
      [given |-> TRUE, dict |-> [category |-> "exam"]] }

\* the arguments of evaluate_relevance
RelevanceQueries == {QueryMinimumGPA, QueryGPA}

RelevanceDocuments == {TextGoodStanding, TextDeadlines}

\* the threshold argument of evaluate_relevance: absent, or a float
ThresholdArgs ==
    { [given |-> FALSE, value |-> <<0, 1>>],
      [given |-> TRUE, value |-> <<1, 3>>] }

\* the queries argument of batch_retrieve: no query, and a list that repeats one
QueryLists == { << >>, <<QueryGPA, QueryNoOverlap, QueryGPA>> }

BatchTopKs == {1, DefaultTopK}

\* the texts _calculate_similarity is applied to on its own
SimilarityTexts ==
    { << >>, QueryNoOverlap, QueryGPA, QueryMinimumGPA, TextStopWords, TextExamHall,
      TextHallExam, TextSelfSimilar, TextGoodStanding, TextDeadlines,
      QueryEligibility, SampleText1 }

\* metadata or {}
OrEmpty(m) == IF m.given /\ DOMAIN m.dict # {} THEN m.dict ELSE EmptyDict

(***************************************************************************)
(* str.lower() and str.split()                                             *)
(***************************************************************************)
LowerMap ==
    [A |-> "a", B |-> "b", C |-> "c", D |-> "d", E |-> "e", F |-> "f", G |-> "g",
     H |-> "h", I |-> "i", J |-> "j", K |-> "k", L |-> "l", M |-> "m", N |-> "n",
     O |-> "o", P |-> "p", Q |-> "q", R |-> "r", S |-> "s", T |-> "t", U |-> "u",
     V |-> "v", W |-> "w", X |-> "x", Y |-> "y", Z |-> "z"]

LowerChar(c) == IF c \in DOMAIN LowerMap THEN LowerMap[c] ELSE c

\* s.lower()
Lower(s) == [i \in 1..Len(s) |-> LowerChar(s[i])]

\* the characters str.split() with no argument treats as separators
Whitespace == {" ", "\t", "\n", "\r"}

\* s.split(): the maximal runs of non-whitespace characters, in order.
\* The scan goes word by word: skip the separators, take the run, go on after it.
HasWordFrom(s, i) == \E p \in i..Len(s) : s[p] \notin Whitespace

WordStart(s, i) ==
    CHOOSE p \in i..Len(s) : s[p] \notin Whitespace /\ \A r \in i..(p - 1) : s[r] \in Whitespace

WordEnd(s, b) ==
    CHOOSE e \in b..Len(s) :
        /\ e = Len(s) \/ s[e + 1] \in Whitespace
        /\ \A r \in b..e : s[r] \notin Whitespace

RECURSIVE SplitFrom(_, _, _)
SplitFrom(s, i, acc) ==
    IF ~HasWordFrom(s, i) THEN acc
    ELSE LET b == WordStart(s, i)
             e == WordEnd(s, b)
         IN  SplitFrom(s, e + 1, Append(acc, SubSeq(s, b, e)))

Split(s) == SplitFrom(s, 1, << >>)

\* set(seq)
ToSet(seq) == {seq[i] : i \in 1..Len(seq)}

(***************************************************************************)
(* RAGPipeline._calculate_similarity                                       *)
(***************************************************************************)
common_words ==
    { <<"a">>, <<"a","n">>, <<"t","h","e">>, <<"a","n","d">>, <<"o","r">>, <<"i","s">>,
      <<"a","r","e">>, <<"f","o","r">>, <<"o","f">>, <<"t","o">>, <<"i","n">> }

\* WordSet without the lower-casing: set(text.split()) - common_words
WordSetCaseSensitive(text) == ToSet(Split(text)) \ common_words

\* WordSet without the stop-word filter: set(text.lower().split())
WordSetWithStopWords(text) == ToSet(Split(Lower(text)))

\* set(text.lower().split()) - common_words
WordSet(text) == ToSet(Split(Lower(text))) \ common_words

\* the texts added and then searched for with retrieve_by_category: besides
\* the two NewTexts, the lower-cased text of a built-in exam document and of
\* a built-in admission document
TextExamScheduleLower == Lower(SampleText4)

TextAdmissionLower == Lower(SampleText1)

AppendTexts == NewTexts \cup {TextExamScheduleLower, TextAdmissionLower}

\* Every text the model passes to _calculate_similarity
KnownTexts ==
    {sample_documents[i].text : i \in 1..Len(sample_documents)} \cup Queries \cup NewTexts
        \cup RelevanceQueries \cup RelevanceDocuments \cup SimilarityTexts \cup AppendTexts

\* WordSet over the known texts, evaluated once per text
WordSetOf == [text \in KnownTexts |-> WordSet(text)]

RECURSIVE Gcd(_, _)
Gcd(a, b) == IF b = 0 THEN a ELSE Gcd(b, a % b)

\* the float n / d, d > 0
Quotient(n, d) == <<n \div Gcd(n, d), d \div Gcd(n, d)>>

\* the float 0.0
Zero == <<0, 1>>

\* the float 1.0
One == <<1, 1>>

\* float comparisons
Less(x, y) == x[1] * y[2] < y[1] * x[2]
Leq(x, y) == x[1] * y[2] <= y[1] * x[2]

\* x - 1 in place of 1 - x
MinusOne(x) == <<x[1] - x[2], x[2]>>

\* 1 - x
OneMinus(x) == <<x[2] - x[1], x[2]>>

calculate_similarity(q, d) ==
    LET query_words == WordSetOf[q]
        doc_words == WordSetOf[d]
    IN  IF Cardinality(query_words \cup doc_words) = 0
        THEN Zero
        ELSE Quotient(Cardinality(query_words \cap doc_words),
                      Cardinality(query_words \cup doc_words))

(***************************************************************************)
(* RAGPipeline.retrieve                                                    *)
(***************************************************************************)
\* InsertByScore without reverse=True: ascending scores
InsertByScoreAscending(sorted, x) ==
    LET k == Cardinality({j \in 1..Len(sorted) : Leq(sorted[j][2], x[2])})
    IN  SubSeq(sorted, 1, k) \o <<x>> \o SubSeq(sorted, k + 1, Len(sorted))

\* InsertByScore as an ascending sort that is then reversed: equal scores come
\* out latest first
InsertByScoreBeforeEqual(sorted, x) ==
    LET k == Cardinality({j \in 1..Len(sorted) : Less(x[2], sorted[j][2])})
    IN  SubSeq(sorted, 1, k) \o <<x>> \o SubSeq(sorted, k + 1, Len(sorted))

\* scores.sort(key=lambda x: x[1], reverse=True): list.sort is stable, also
\* with reverse=True, so x goes after every element whose score is >= its own
InsertByScore(sorted, x) ==
    LET k == Cardinality({j \in 1..Len(sorted) : Leq(x[2], sorted[j][2])})
    IN  SubSeq(sorted, 1, k) \o <<x>> \o SubSeq(sorted, k + 1, Len(sorted))

RECURSIVE SortFrom(_, _, _)
SortFrom(scores, i, sorted) ==
    IF i > Len(scores) THEN sorted
    ELSE SortFrom(scores, i + 1, InsertByScore(sorted, scores[i]))

SortByScoreDesc(scores) == SortFrom(scores, 1, << >>)

\* Slice cut one entry late: s[:k + 1]
SliceOneMore(s, k) ==
    IF k + 1 >= 0
    THEN SubSeq(s, 1, IF k + 1 < Len(s) THEN k + 1 ELSE Len(s))
    ELSE SubSeq(s, 1, IF Len(s) + k + 1 > 0 THEN Len(s) + k + 1 ELSE 0)

\* the Python slice s[:k]
Slice(s, k) ==
    IF k >= 0
    THEN SubSeq(s, 1, IF k < Len(s) THEN k ELSE Len(s))
    ELSE SubSeq(s, 1, IF Len(s) + k > 0 THEN Len(s) + k ELSE 0)

\* the (i, score) pairs in corpus order; i is 1-based here, 0-based in the source
Scores(docs, q) == [i \in 1..Len(docs) |-> <<i, calculate_similarity(q, docs[i])>>]

\* FormatResult reading the corpus at the rank instead of at the ranked index
FormatResultByPosition(docs, meta, rank, entry) ==
    [rank |-> rank,
     text |-> docs[rank],
     metadata |-> meta[rank],
     similarity_score |-> entry[2],
     distance |-> OneMinus(entry[2])]

FormatResult(docs, meta, rank, entry) ==
    [rank |-> rank,
     text |-> docs[entry[1]],
     metadata |-> meta[entry[1]],
     similarity_score |-> entry[2],
     distance |-> OneMinus(entry[2])]

retrieve(docs, meta, q, k) ==
    LET top == Slice(SortByScoreDesc(Scores(docs, q)), k)
    IN  [rank \in 1..Len(top) |-> FormatResult(docs, meta, rank, top[rank])]

(***************************************************************************)
(* RAGPipeline.retrieve_by_category                                        *)
(***************************************************************************)
\* CategoryIs with the asked category as the default of get:
\* r["metadata"].get("category", category) == category
CategoryIsOrMissing(r, c) ==
    "category" \in DOMAIN r.metadata => r.metadata["category"] = c

\* r["metadata"].get("category") == category
CategoryIs(r, c) ==
    /\ "category" \in DOMAIN r.metadata
    /\ r.metadata["category"] = c

\* self.retrieve(query, top_k * 3)
OversampleFactor == 3

RECURSIVE FilterFrom(_, _, _, _)
FilterFrom(all_results, c, i, acc) ==
    IF i > Len(all_results) THEN acc
    ELSE FilterFrom(all_results, c, i + 1,
                    IF CategoryIs(all_results[i], c) THEN Append(acc, all_results[i]) ELSE acc)

FilterByCategory(all_results, c) == FilterFrom(all_results, c, 1, << >>)

\* retrieve_by_category without the over-fetch: self.retrieve(query, top_k)
retrieve_by_category_no_oversample(docs, meta, q, c, k) ==
    Slice(FilterByCategory(retrieve(docs, meta, q, k), c), k)

\* retrieve_by_category as an exact filtered search over the whole corpus
retrieve_by_category_exact(docs, meta, q, c, k) ==
    Slice(FilterByCategory(retrieve(docs, meta, q, Len(docs)), c), k)

\* retrieve_by_category fetching twice top_k instead of three times: self.retrieve(query, top_k * 2)
retrieve_by_category_twofold(docs, meta, q, c, k) ==
    Slice(FilterByCategory(retrieve(docs, meta, q, k * 2), c), k)

retrieve_by_category(docs, meta, q, c, k) ==
    LET all_results == retrieve(docs, meta, q, k * OversampleFactor)
        filtered_results == FilterByCategory(all_results, c)
    IN  Slice(filtered_results, k)

(***************************************************************************)
(* RAGPipeline.batch_retrieve and RAGPipeline.evaluate_relevance           *)
(***************************************************************************)
\* results = {}; for query in queries: results[query] = self.retrieve(query, top_k)
batch_retrieve(docs, meta, queries, k) ==
    [q \in ToSet(queries) |-> retrieve(docs, meta, q, k)]

\* threshold: float = 0.2
DefaultThreshold == <<1, 5>>

ThresholdOf(t) == IF t.given THEN t.value ELSE DefaultThreshold

\* evaluate_relevance with > in place of >=
evaluate_relevance_strict(q, d, th) == Less(th, calculate_similarity(q, d))

\* similarity >= threshold
evaluate_relevance(q, d, th) == Leq(th, calculate_similarity(q, d))

(***************************************************************************)
(* IntentClassifier                                                        *)
(***************************************************************************)
\* a query or a text that is not a string: the None object
None == <<"None">>

intent_labels == <<"admission", "exam", "scholarship", "academic_policy">>

\* the keyword lists, in the order of the dict; "policy" is listed twice
intent_keywords ==
    [
     admission |->
      <<
        <<"a","d","m","i","s","s","i","o","n">>, <<"e","l","i","g","i","b","l","e">>,
        <<"e","l","i","g","i","b","i","l","i","t","y">>,
        <<"a","p","p","l","i","c","a","t","i","o","n">>,
        <<"r","e","q","u","i","r","e","m","e","n","t","s">>, <<"e","n","r","o","l","l">>,
        <<"e","n","r","o","l","l","m","e","n","t">>, <<"a","c","c","e","p","t","e","d">>,
        <<"a","c","c","e","p","t","a","n","c","e">>,
        <<"d","e","g","r","e","e"," ","p","r","o","g","r","a","m">>, <<"a","p","p","l","y">>,
        <<"e","n","t","r","a","n","c","e"," ","e","x","a","m">>,
        <<"g","p","a"," ","r","e","q","u","i","r","e","m","e","n","t">>, <<"s","a","t">>,
        <<"a","c","t">>, <<"a","p","p","l","y"," ","f","o","r">>,
        <<"p","r","o","g","r","a","m">>, <<"b","s"," ">>, <<"b","a"," ">>,
        <<"m","a","j","o","r">>, <<"u","n","d","e","r","g","r","a","d","u","a","t","e">>,
        <<"g","r","a","d","u","a","t","e">>
      >>,
     exam |->
      <<
        <<"e","x","a","m">>, <<"t","e","s","t">>, <<"q","u","i","z">>,
        <<"a","s","s","e","s","s","m","e","n","t">>, <<"m","i","d","t","e","r","m">>,
        <<"f","i","n","a","l">>, <<"g","r","a","d","e">>, <<"s","c","o","r","e">>,
        <<"r","e","s","u","l","t">>, <<"s","c","h","e","d","u","l","e">>,
        <<"r","e","t","a","k","e">>, <<"e","x","a","m"," ","p","o","l","i","c","y">>,
        <<"g","r","a","d","i","n","g">>, <<"w","h","e","n"," ","i","s">>,
        <<"e","x","a","m"," ","d","a","t","e">>, <<"t","e","s","t"," ","s","c","o","r","e">>,
        <<"m","a","r","k","s">>,
        <<"g","p","a"," ","c","a","l","c","u","l","a","t","i","o","n">>
      >>,
     scholarship |->
      <<
        <<"s","c","h","o","l","a","r","s","h","i","p">>,
        <<"f","i","n","a","n","c","i","a","l"," ","a","i","d">>, <<"g","r","a","n","t">>,
        <<"f","u","n","d","i","n","g">>,
        <<"t","u","i","t","i","o","n"," ","w","a","i","v","e","r">>,
        <<"f","i","n","a","n","c","i","a","l"," ","a","s","s","i","s","t","a","n","c","e">>,
        <<"s","p","o","n","s","o","r">>, <<"s","p","o","n","s","o","r","s","h","i","p">>,
        <<"a","w","a","r","d">>,
        <<"m","e","r","i","t"," ","s","c","h","o","l","a","r","s","h","i","p">>,
        <<"n","e","e","d","-","b","a","s","e","d">>, <<"s","t","i","p","e","n","d">>,
        <<"l","o","a","n">>, <<"f","a","f","s","a">>,
        <<"e","l","i","g","i","b","l","e"," ","f","o","r">>, <<"q","u","a","l","i","f","y">>,
        <<"f","i","n","a","n","c","i","a","l">>
      >>,
     academic_policy |->
      <<
        <<"p","o","l","i","c","y">>,
        <<"a","c","a","d","e","m","i","c"," ","p","o","l","i","c","y">>,
        <<"r","e","q","u","i","r","e","m","e","n","t">>, <<"g","p","a">>,
        <<"s","t","a","n","d","i","n","g">>, <<"r","e","g","u","l","a","t","i","o","n">>,
        <<"r","u","l","e">>,
        <<"c","o","u","r","s","e"," ","r","e","g","i","s","t","r","a","t","i","o","n">>,
        <<"c","r","e","d","i","t"," ","h","o","u","r">>,
        <<"a","c","a","d","e","m","i","c"," ","s","t","a","n","d","i","n","g">>,
        <<"p","r","o","b","a","t","i","o","n">>, <<"d","i","s","m","i","s","s","a","l">>,
        <<"p","r","e","r","e","q","u","i","s","i","t","e">>,
        <<"m","i","n","i","m","u","m"," ","g","p","a">>, <<"m","a","i","n","t","a","i","n">>,
        <<"r","e","g","i","s","t","e","r">>, <<"c","r","e","d","i","t">>,
        <<"h","o","u","r","s">>, <<"p","o","l","i","c","y">>
      >>
    ]

\* keyword in query_lower
Contains(text, keyword) ==
    \E i \in 1..(Len(text) - Len(keyword) + 1) :
        \A j \in 1..Len(keyword) : text[i + j - 1] = keyword[j]

\* sum(1 for keyword in keywords if keyword in query_lower)
KeywordScore(query_lower, keywords) ==
    Cardinality({n \in 1..Len(keywords) : Contains(query_lower, keywords[n])})

\* min(confidence, 1.0)
AtMostOne(x) == IF Less(One, x) THEN One ELSE x

\* predict_with_keywords taking the last of the intents with the largest score
predict_with_keywords_last_max(q) ==
    LET query_lower == Lower(q)
        intent_scores ==
            [n \in 1..Len(intent_labels) |->
                KeywordScore(query_lower, intent_keywords[intent_labels[n]])]
        best == CHOOSE n \in 1..Len(intent_labels) :
                    /\ \A m \in 1..Len(intent_labels) : intent_scores[m] <= intent_scores[n]
                    /\ \A m \in (n + 1)..Len(intent_labels) : intent_scores[m] < intent_scores[n]
    IN  IF \A n \in 1..Len(intent_labels) : intent_scores[n] = 0
        THEN [intent |-> "academic_policy", confidence |-> <<1, 2>>]
        ELSE [intent |-> intent_labels[best],
              confidence |-> AtMostOne(Quotient(2 * intent_scores[best],
                                                Len(Split(query_lower))))]

predict_with_keywords(q) ==
    LET query_lower == Lower(q)
        intent_scores ==
            [n \in 1..Len(intent_labels) |->
                KeywordScore(query_lower, intent_keywords[intent_labels[n]])]
        \* max(intent_scores, key=intent_scores.get): the first intent with the largest score
        best == CHOOSE n \in 1..Len(intent_labels) :
                    /\ \A m \in 1..Len(intent_labels) : intent_scores[m] <= intent_scores[n]
                    /\ \A m \in 1..(n - 1) : intent_scores[m] < intent_scores[n]
    IN  IF \A n \in 1..Len(intent_labels) : intent_scores[n] = 0
        THEN [intent |-> "academic_policy", confidence |-> <<1, 2>>]
        ELSE [intent |-> intent_labels[best],
              confidence |-> AtMostOne(Quotient(2 * intent_scores[best],
                                                Len(Split(query_lower))))]

\* IntentClassifier.predict
predict(q) == predict_with_keywords(q)

\* the queries given to process_query; None is no string
CoordinatorQueries == {QueryEligibility, QueryNoOverlap, None}

\* predict_with_keywords over the queries that are strings, evaluated once per query
PredictionOf == [q \in CoordinatorQueries \ {None} |-> predict_with_keywords(q)]

(***************************************************************************)
(* The outcome of a call: the value it returns, or the exception it raises *)
(* (str(e) is kept). Fault sites name the calls that may raise for a       *)
(* reason outside the program, such as MemoryError.                        *)
(***************************************************************************)
Return(v) == [raised |-> FALSE, value |-> v]

Raise(e) == [raised |-> TRUE, error |-> e]

FaultSites == {"predict", "predict_with_keywords", "retrieve", "policy", "verification",
               "interaction"}

FaultMessage(site) == "fault in " \o site

\* None.lower()
NoneHasNoLower == "'NoneType' object has no attribute 'lower'"

\* self.classifier.predict(query), self.classifier.predict_with_keywords(query)
Classify(q, site, f) ==
    IF site \in f THEN Raise(FaultMessage(site))
    ELSE IF q = None THEN Raise(NoneHasNoLower)
    ELSE Return(PredictionOf[q])

(***************************************************************************)
(* IntentAgent.process                                                     *)
(***************************************************************************)
IntentResult(q, prediction, status) ==
    [agent |-> "Intent Detection Agent",
     query |-> q,
     intent |-> prediction.intent,
     confidence |-> prediction.confidence,
     status |-> status]

intent_agent_process(q, f) ==
    LET predicted == Classify(q, "predict", f)
        fallback == Classify(q, "predict_with_keywords", f)
    IN  IF ~predicted.raised
        THEN Return(IntentResult(q, predicted.value, "success"))
        \* except Exception as e: the fallback runs outside any try
        ELSE IF fallback.raised
        THEN fallback
        ELSE Return([key \in DOMAIN IntentResult(q, fallback.value, "success_fallback")
                            \cup {"error"} |->
                        IF key = "error" THEN predicted.error
                        ELSE IntentResult(q, fallback.value, "success_fallback")[key]])

(***************************************************************************)
(* RetrievalAgent.process                                                  *)
(***************************************************************************)
\* document.lower() of a document that is not a string
RetrieveRaises(docs) == \E i \in 1..Len(docs) : docs[i] = None

\* doc["metadata"].get("category", "General")
CategoryOrGeneral(m) == IF "category" \in DOMAIN m THEN m["category"] ELSE "General"

FormatDocument(doc) ==
    [rank |-> doc.rank,
     text |-> doc.text,
     category |-> CategoryOrGeneral(doc.metadata),
     similarity_score |-> doc.similarity_score,
     metadata |-> doc.metadata]

FormatDocuments(found) == [i \in 1..Len(found) |-> FormatDocument(found[i])]

RetrievalSuccess(q, intent, formatted_docs) ==
    [agent |-> "Document Retrieval Agent",
     query |-> q,
     intent |-> intent,
     documents_retrieved |-> Len(formatted_docs),
     documents |-> formatted_docs,
     status |-> "success"]

\* except Exception as e: the agent returns a result of its own
RetrievalFailure(q, intent, e) ==
    [agent |-> "Document Retrieval Agent",
     query |-> q,
     intent |-> intent,
     documents_retrieved |-> 0,
     documents |-> << >>,
     status |-> "failed",
     error |-> e]

retrieval_agent_process(docs, meta, q, intent, k, f) ==
    IF "retrieve" \in f
    THEN Return(RetrievalFailure(q, intent, FaultMessage("retrieve")))
    ELSE IF RetrieveRaises(docs)
    THEN Return(RetrievalFailure(q, intent, NoneHasNoLower))
    ELSE IF intent # ""
    THEN Return(RetrievalSuccess(q, intent,
                    FormatDocuments(retrieve_by_category(docs, meta, q, intent, k))))
    ELSE Return(RetrievalSuccess(q, intent, FormatDocuments(retrieve(docs, meta, q, k))))

(***************************************************************************)
(* PolicyAgent.process, VerificationAgent.process, InteractionAgent.process*)
(* The policy result is kept as its status and the keys of the dict.       *)
(***************************************************************************)
policy_agent_process(found, f) ==
    IF "policy" \in f THEN Raise(FaultMessage("policy"))
    ELSE IF Len(found) = 0
    THEN Return([agent |-> "Policy Interpretation Agent",
                 status |-> "no_documents",
                 keys |-> {"agent", "policies", "requirements", "status"}])
    ELSE Return([agent |-> "Policy Interpretation Agent",
                 status |-> "success",
                 keys |-> {"agent", "policies", "requirements", "num_policies", "status"}])

verification_agent_process(information, f) ==
    IF "verification" \in f THEN Raise(FaultMessage("verification"))
    ELSE Return([agent |-> "Verification Agent", status |-> "success"])

\* the heading of the response _format_response builds for the intent
ResponseHeading(intent) ==
    CASE intent = "admission" -> "ADMISSION REQUIREMENTS"
      [] intent = "exam" -> "EXAM INFORMATION"
      [] intent = "scholarship" -> "SCHOLARSHIP INFORMATION"
      [] intent = "academic_policy" -> "ACADEMIC POLICY INFORMATION"
      [] OTHER -> "INFORMATION"

interaction_agent_process(policy_data, intent, f) ==
    IF "interaction" \in f
    \* except Exception as e: the agent returns a result of its own
    THEN Return([agent |-> "User Interaction Agent",
                 formatted_response |-> "Unable to process your query at this time.",
                 intent |-> intent,
                 status |-> "failed",
                 error |-> FaultMessage("interaction")])
    ELSE Return([agent |-> "User Interaction Agent",
                 formatted_response |-> ResponseHeading(intent),
                 intent |-> intent,
                 status |-> "success"])

(***************************************************************************)
(* CoordinatorAgent.process_query                                          *)
(***************************************************************************)
\* self.retrieval_agent.process(query, intent, top_k=3)
CoordinatorTopK == 3

NoWorkflow == [stage \in {} |-> [status |-> ""]]

NewResult(q) ==
    [query |-> q,
     workflow |-> NoWorkflow,
     final_response |-> "",
     status |-> "success",
     agents_executed |-> << >>]

\* Executed with the agent put at the front of agents_executed
ExecutedAtFront(res, stage, stage_result, agent) ==
    [res EXCEPT !.workflow = (stage :> stage_result) @@ res.workflow,
                !.agents_executed = <<agent>> \o res.agents_executed]

\* result["workflow"][stage] = stage_result; result["agents_executed"].append(agent)
Executed(res, stage, stage_result, agent) ==
    [res EXCEPT !.workflow = (stage :> stage_result) @@ res.workflow,
                !.agents_executed = Append(res.agents_executed, agent)]

\* an exception raised inside the try block, with result as it is by then
RaisedWith(res, e) == [raised |-> TRUE, error |-> e, result |-> res]

\* Step 5: response formatting, follow-up suggestions, conversation history
StepInteraction(res, q, intent, interaction_result) ==
    [raised |-> FALSE,
     value |-> [Executed(res, "interaction", interaction_result, "Interaction Agent")
                   EXCEPT !.final_response = interaction_result.formatted_response],
     appended |-> <<[query |-> q,
                     intent |-> intent,
                     response |-> interaction_result.formatted_response]>>]

\* Step 4: verification
StepVerification(res, q, f, intent, policy_result, verification_result) ==
    IF verification_result.raised
    THEN RaisedWith(res, verification_result.error)
    ELSE StepInteraction(
             Executed(res, "verification", verification_result.value, "Verification Agent"),
             q, intent,
             interaction_agent_process(policy_result, intent, f).value)

\* Step 3: policy interpretation
StepPolicy(res, q, v, f, intent, policy_result) ==
    IF policy_result.raised
    THEN RaisedWith(res, policy_result.error)
    \* if verbose: print(f"Policies Extracted: {policy_result['num_policies']}")
    ELSE IF v /\ "num_policies" \notin policy_result.value.keys
    THEN RaisedWith(Executed(res, "policy", policy_result.value, "Policy Agent"),
                    "'num_policies'")
    ELSE StepVerification(
             Executed(res, "policy", policy_result.value, "Policy Agent"),
             q, f, intent, policy_result.value,
             verification_agent_process(policy_result.value, f))

\* Step 2: document retrieval; RetrievalAgent.process never raises
StepRetrieval(res, q, v, f, intent, retrieval_result) ==
    StepPolicy(Executed(res, "retrieval", retrieval_result, "Retrieval Agent"),
               q, v, f, intent,
               policy_agent_process(retrieval_result.documents, f))

\* Step 1: intent detection
StepIntent(res, docs, meta, q, v, f, intent_result) ==
    IF intent_result.raised
    THEN RaisedWith(res, intent_result.error)
    ELSE StepRetrieval(
             Executed(res, "intent", intent_result.value, "Intent Agent"),
             q, v, f, intent_result.value.intent,
             retrieval_agent_process(docs, meta, q, intent_result.value.intent,
                                     CoordinatorTopK, f).value)

\* the try block
process_query_try(docs, meta, q, v, f) ==
    StepIntent(NewResult(q), docs, meta, q, v, f, intent_agent_process(q, f))

\* except Exception as e
Failed(res, e) ==
    [query |-> res.query,
     workflow |-> res.workflow,
     final_response |-> "Error processing query: " \o e,
     status |-> "failed",
     agents_executed |-> res.agents_executed,
     error |-> e]

\* process_query appending to conversation_history whatever it returns
process_query_always_appending(docs, meta, q, v, f) ==
    LET tried == process_query_try(docs, meta, q, v, f)
    IN  IF tried.raised
        THEN [outcome |-> Return(Failed(tried.result, tried.error)),
              appended |-> <<[query |-> q, intent |-> "", response |-> ""]>>]
        ELSE [outcome |-> Return(tried.value), appended |-> tried.appended]

\* process_query without its except clause
process_query_uncaught(docs, meta, q, v, f) ==
    LET tried == process_query_try(docs, meta, q, v, f)
    IN  IF tried.raised
        THEN [outcome |-> Raise(tried.error), appended |-> << >>]
        ELSE [outcome |-> Return(tried.value), appended |-> tried.appended]

\* what process_query returns or raises, and what it appends to conversation_history
process_query(docs, meta, q, v, f) ==
    LET tried == process_query_try(docs, meta, q, v, f)
    IN  IF tried.raised
        THEN [outcome |-> Return(Failed(tried.result, tried.error)), appended |-> << >>]
        ELSE [outcome |-> Return(tried.value), appended |-> tried.appended]

(***************************************************************************)
(* CoordinatorAgent.handle_conversation                                    *)
(***************************************************************************)
\* results.append(result), for the first query and then for the others
HandleStep(out, rest) ==
    [results |-> <<out.outcome.value>> \o rest.results,
     appended |-> out.appended \o rest.appended]

\* the list handle_conversation returns, and what its calls append to conversation_history
RECURSIVE handle_conversation(_, _, _, _)
handle_conversation(docs, meta, queries, f) ==
    IF Len(queries) = 0 THEN [results |-> << >>, appended |-> << >>]
    ELSE HandleStep(process_query(docs, meta, Head(queries), FALSE, f),
                    handle_conversation(docs, meta, Tail(queries), f))

(***************************************************************************)
(* The calls that returned status "success", as the caller sees them: one  *)
(* (query, intent, response) per such result, in the order of the calls    *)
(***************************************************************************)
\* the dict a call returned, if it returned
ReturnedBy(outcome) == IF outcome.raised THEN << >> ELSE <<outcome.value>>

IsSuccess(r) == r.status = "success"

SuccessEntries(returned_results) ==
    LET successes == SelectSeq(returned_results, IsSuccess)
    IN  [n \in 1..Len(successes) |->
            [query |-> successes[n].query,
             intent |-> successes[n].workflow["intent"].intent,
             response |-> successes[n].final_response]]

(***************************************************************************)
(* VerificationAgent.process, on info_str = str(information)               *)
(***************************************************************************)
Digits == {"0", "1", "2", "3", "4", "5", "6", "7", "8", "9"}

DigitValue(c) == (CHOOSE n \in 1..10 : <<"0", "1", "2", "3", "4", "5", "6", "7", "8", "9">>[n] = c) - 1

\* int(s) of a string of digits
RECURSIVE IntOf(_)
IntOf(s) ==
    IF Len(s) = 0 THEN 0
    ELSE 10 * IntOf(SubSeq(s, 1, Len(s) - 1)) + DigitValue(s[Len(s)])

AllDigits(s, b, e) == e <= Len(s) /\ \A p \in b..e : s[p] \in Digits

\* the end of the longest run of digits that starts at b and has at most most digits
DigitRunEnd(s, b, most) ==
    CHOOSE e \in b..(b + most - 1) :
        /\ AllDigits(s, b, e)
        /\ e = b + most - 1 \/ ~AllDigits(s, b, e + 1)

\* word in s
StartsAt(s, i, word) ==
    i + Len(word) - 1 <= Len(s) /\ \A j \in 1..Len(word) : s[i + j - 1] = word[j]

\* r"(\d+\.\d+)" matches at i
FloatAt(s, i) ==
    /\ s[i] \in Digits
    /\ LET a == DigitRunEnd(s, i, Len(s))
       IN  a + 2 <= Len(s) /\ s[a + 1] = "." /\ s[a + 2] \in Digits

\* re.findall(r"(\d+\.\d+)", s): the matches from left to right, without overlap
RECURSIVE FindFloats(_, _, _)
FindFloats(s, from, acc) ==
    IF ~\E i \in from..Len(s) : FloatAt(s, i) THEN acc
    ELSE LET i == CHOOSE i \in from..Len(s) :
                      FloatAt(s, i) /\ \A h \in from..(i - 1) : ~FloatAt(s, h)
             a == DigitRunEnd(s, i, Len(s))
             b == DigitRunEnd(s, a + 2, Len(s))
         IN  FindFloats(s, b + 1,
                        Append(acc, [whole |-> SubSeq(s, i, a), fraction |-> SubSeq(s, a + 2, b)]))

\* word.*?(\d{least,most}) matches at i with its group starting at p
GroupAt(s, i, word, least, p) ==
    /\ StartsAt(s, i, word)
    /\ p >= i + Len(word)
    /\ AllDigits(s, p, p + least - 1)
    /\ \A h \in (i + Len(word))..(p - 1) : s[h] # "\n"

\* the first place at or after i + len(word) where the group can start
FirstGroup(s, i, word, least) ==
    CHOOSE p \in i..Len(s) :
        GroupAt(s, i, word, least, p) /\ \A h \in i..(p - 1) : ~GroupAt(s, i, word, least, h)

MatchesAt(s, i, word, least) == \E p \in i..Len(s) : GroupAt(s, i, word, least, p)

\* re.findall(word + r".*?(\d{least,most})", s)
RECURSIVE FindAfter(_, _, _, _, _, _)
FindAfter(s, from, word, least, most, acc) ==
    IF ~\E i \in from..Len(s) : MatchesAt(s, i, word, least) THEN acc
    ELSE LET i == CHOOSE i \in from..Len(s) :
                      MatchesAt(s, i, word, least)
                          /\ \A h \in from..(i - 1) : ~MatchesAt(s, h, word, least)
             p == FirstGroup(s, i, word, least)
             e == DigitRunEnd(s, p, most)
         IN  FindAfter(s, e + 1, word, least, most, Append(acc, SubSeq(s, p, e)))

\* self.valid_ranges
valid_ranges ==
    [gpa |-> <<0, 4>>, credit_hours |-> <<1, 200>>, sat_score |-> <<400, 1600>>,
     act_score |-> <<1, 36>>, percentage |-> <<0, 100>>]

\* not (valid_ranges["gpa"][0] <= float(gpa_val) <= valid_ranges["gpa"][1])
GpaOutOfRange(m) ==
    \/ IntOf(m.whole) < valid_ranges.gpa[1]
    \/ IntOf(m.whole) > valid_ranges.gpa[2]
    \/ IntOf(m.whole) = valid_ranges.gpa[2] /\ IntOf(m.fraction) > 0

OutOfRange(digits, range) == IntOf(digits) < range[1] \/ IntOf(digits) > range[2]

TextGpa == <<"g", "p", "a">>
TextSAT == <<"S", "A", "T">>
TextACT == <<"A", "C", "T">>
TextMust == <<"m", "u", "s", "t">>
TextNo == <<"n", "o">>
TextAdmission == <<"a", "d", "m", "i", "s", "s", "i", "o", "n">>
TextTest == <<"t", "e", "s", "t">>
TextDeadline == <<"d", "e", "a", "d", "l", "i", "n", "e">>

\* _verify_numeric_values: the issues and the warnings it appends
NumericIssues(info_str) ==
    IF Contains(info_str, TextGpa)
    THEN LET Bad(m) == GpaOutOfRange(m)
         IN  [n \in 1..Len(SelectSeq(FindFloats(info_str, 1, << >>), Bad)) |->
                 "Invalid GPA value"]
    ELSE << >>

NumericWarnings(info_str) ==
    LET BadSat(x) == OutOfRange(x, valid_ranges.sat_score)
        BadAct(x) == OutOfRange(x, valid_ranges.act_score)
        sat == IF Contains(info_str, TextSAT)
               THEN SelectSeq(FindAfter(info_str, 1, TextSAT, 3, 4, << >>), BadSat)
               ELSE << >>
        act == IF Contains(info_str, TextACT)
               THEN SelectSeq(FindAfter(info_str, 1, TextACT, 1, 2, << >>), BadAct)
               ELSE << >>
    IN  [n \in 1..Len(sat) |-> "SAT score is unusual"]
            \o [n \in 1..Len(act) |-> "ACT score is unusual"]

\* _verify_consistency
ConsistencyWarnings(info_str) ==
    IF Contains(Lower(info_str), TextMust) /\ Contains(Lower(info_str), TextNo)
    THEN <<"Potential contradictory statements detected">>
    ELSE << >>

\* _verify_completeness
CompletenessWarnings(info_str) ==
    LET required_fields == <<TextGpa, TextTest, TextDeadline>>
        found_fields == Cardinality({n \in 1..Len(required_fields) :
                                        Contains(Lower(info_str), required_fields[n])})
    IN  (IF Len(info_str) < 50
         THEN <<"Information seems incomplete or too brief">> ELSE << >>)
        \o (IF Contains(Lower(info_str), TextAdmission) /\ found_fields < 2
            THEN <<"Admission information may be missing key details">> ELSE << >>)

\* the score without max(0, ...)
QualityScoreUnclamped(issues_count, warnings_count) ==
    <<20 - (2 * issues_count + warnings_count), 20>>

\* max(0, 1.0 - (issues_count * 0.1 + warnings_count * 0.05)), as a fraction
QualityScore(issues_count, warnings_count) ==
    LET twentieths == 20 - (2 * issues_count + warnings_count)
    IN  IF twentieths <= 0 THEN Zero ELSE Quotient(twentieths, 20)

\* results["verified"] = False, next to results["issues"].append(...)
Verified(info_str) ==
    ~(/\ Contains(info_str, TextGpa)
      /\ \E n \in 1..Len(FindFloats(info_str, 1, << >>)) :
             GpaOutOfRange(FindFloats(info_str, 1, << >>)[n]))

verification_process(info_str) ==
    LET issues == NumericIssues(info_str)
        warnings == NumericWarnings(info_str) \o ConsistencyWarnings(info_str)
                        \o CompletenessWarnings(info_str)
    IN  [agent |-> "Verification Agent",
         verified |-> Verified(info_str),
         issues |-> issues,
         warnings |-> warnings,
         data_quality_score |-> QualityScore(Len(issues), Len(warnings)),
         status |-> "success"]

(***************************************************************************)
(* The state machine                                                       *)
(***************************************************************************)
NoResults == << >>

NoAttributes == [given |-> FALSE, dict |-> EmptyDict]

NoBatch == [q \in {} |-> NoResults]

NoThreshold == [given |-> FALSE, value |-> Zero]

\* no process_query call has returned yet
NoResult == Return([status |-> "none"])

\* the window after EducationAssistantGUI.__init__
NewWindow ==
    [text |-> << >>,
     send_button |-> TRUE,
     query_input |-> TRUE,
     progress_bar |-> FALSE,
     status_bar |-> "Ready",
     message_box |-> "",
     workers |-> << >>,
     signals |-> << >>,
     history_table |-> << >>]

\* no call of IntentClassifier.predict yet
NoPrediction == [intent |-> "", confidence |-> Zero]

\* no add_document under way, no retrieve under way
WriterIdle == [pc |-> "idle"]

ReaderIdle == [pc |-> "idle"]

\* no call of VerificationAgent.process yet
NoVerification == [status |-> "none"]

\* history: what retrieve returned when first called with <<query, top_k>> on
\* the present corpus, and whether it has been called so again
NoReturned == [key \in {} |-> [first |-> NoResults, again |-> FALSE]]

Init ==
    /\ documents = [i \in 1..Len(sample_documents) |-> sample_documents[i].text]
    /\ metadata = sample_documents
    /\ op = "init"
    /\ query = << >>
    /\ category = ""
    /\ top_k = 0
    /\ results = NoResults
    /\ attributes = NoAttributes
    /\ document = << >>
    /\ threshold = NoThreshold
    /\ relevant = FALSE
    /\ batch = NoBatch
    /\ similarity = Zero
    /\ returned = NoReturned
    /\ result = NoResult
    /\ conversation_history = << >>
    /\ verbose = FALSE
    /\ faults = {}
    /\ classified = NoPrediction
    /\ information_text = << >>
    /\ verification = NoVerification
    /\ execution_log = << >>
    /\ handled = << >>
    /\ succeeded = << >>
    /\ atomic_add = FALSE
    /\ writer = WriterIdle
    /\ reader = ReaderIdle
    /\ gui = NewWindow

\* add_document without self.metadata.append(metadata or {})
AddDocumentTextOnly(text, m) ==
    /\ Len(documents) < Len(sample_documents) + MaxAdded
    /\ documents' = Append(documents, text)
    /\ metadata' = metadata
    /\ op' = "add_document"
    /\ query' = text
    /\ category' = ""
    /\ top_k' = 0
    /\ results' = NoResults
    /\ attributes' = m
    /\ document' = << >>
    /\ threshold' = NoThreshold
    /\ relevant' = FALSE
    /\ batch' = NoBatch
    /\ similarity' = Zero

\* add_document with insert(0, ...) in place of append
AddDocumentAtFront(text, m) ==
    /\ Len(documents) < Len(sample_documents) + MaxAdded
    /\ documents' = <<text>> \o documents
    /\ metadata' = <<OrEmpty(m)>> \o metadata
    /\ op' = "add_document"
    /\ query' = text
    /\ category' = ""
    /\ top_k' = 0
    /\ results' = NoResults
    /\ attributes' = m
    /\ document' = << >>
    /\ threshold' = NoThreshold
    /\ relevant' = FALSE
    /\ batch' = NoBatch
    /\ similarity' = Zero

AddDocument(text, m) ==
    /\ Len(documents) < Len(sample_documents) + MaxAdded
    /\ documents' = Append(documents, text)
    /\ metadata' = Append(metadata, OrEmpty(m))
    /\ op' = "add_document"
    /\ query' = text
    /\ category' = ""
    /\ top_k' = 0
    /\ results' = NoResults
    /\ attributes' = m
    /\ document' = << >>
    /\ threshold' = NoThreshold
    /\ relevant' = FALSE
    /\ batch' = NoBatch
    /\ similarity' = Zero

\* retrieve that answers from the last retrieve's results when the query is
\* the same, whatever top_k is
RetrieveCached(q, k) ==
    /\ results' = IF op = "retrieve" /\ query = q
                  THEN results
                  ELSE retrieve(documents, metadata, q, k)
    /\ op' = "retrieve"
    /\ query' = q
    /\ category' = ""
    /\ top_k' = k
    /\ attributes' = NoAttributes
    /\ document' = << >>
    /\ threshold' = NoThreshold
    /\ relevant' = FALSE
    /\ batch' = NoBatch
    /\ similarity' = Zero
    /\ UNCHANGED <<documents, metadata>>

\* retrieve that sorts the corpus itself in place
RetrieveSortingCorpus(q, k) ==
    /\ results' = retrieve(documents, metadata, q, k)
    /\ documents' = [i \in 1..Len(documents) |->
                         documents[SortByScoreDesc(Scores(documents, q))[i][1]]]
    /\ metadata' = [i \in 1..Len(documents) |->
                        metadata[SortByScoreDesc(Scores(documents, q))[i][1]]]
    /\ op' = "retrieve"
    /\ query' = q
    /\ category' = ""
    /\ top_k' = k
    /\ attributes' = NoAttributes
    /\ document' = << >>
    /\ threshold' = NoThreshold
    /\ relevant' = FALSE
    /\ batch' = NoBatch
    /\ similarity' = Zero

Retrieve(q, k) ==
    /\ results' = retrieve(documents, metadata, q, k)
    /\ op' = "retrieve"
    /\ query' = q
    /\ category' = ""
    /\ top_k' = k
    /\ attributes' = NoAttributes
    /\ document' = << >>
    /\ threshold' = NoThreshold
    /\ relevant' = FALSE
    /\ batch' = NoBatch
    /\ similarity' = Zero
    /\ UNCHANGED <<documents, metadata>>

RetrieveByCategory(q, c, k) ==
    /\ results' = retrieve_by_category(documents, metadata, q, c, k)
    /\ op' = "retrieve_by_category"
    /\ query' = q
    /\ category' = c
    /\ top_k' = k
    /\ attributes' = NoAttributes
    /\ document' = << >>
    /\ threshold' = NoThreshold
    /\ relevant' = FALSE
    /\ batch' = NoBatch
    /\ similarity' = Zero
    /\ UNCHANGED <<documents, metadata>>

BatchRetrieve(queries, k) ==
    /\ batch' = batch_retrieve(documents, metadata, queries, k)
    /\ op' = "batch_retrieve"
    /\ query' = << >>
    /\ category' = ""
    /\ top_k' = k
    /\ results' = NoResults
    /\ attributes' = NoAttributes
    /\ document' = << >>
    /\ threshold' = NoThreshold
    /\ relevant' = FALSE
    /\ similarity' = Zero
    /\ UNCHANGED <<documents, metadata>>

EvaluateRelevance(q, d, t) ==
    /\ relevant' = evaluate_relevance(q, d, ThresholdOf(t))
    /\ op' = "evaluate_relevance"
    /\ query' = q
    /\ document' = d
    /\ threshold' = t
    /\ category' = ""
    /\ top_k' = 0
    /\ results' = NoResults
    /\ attributes' = NoAttributes
    /\ batch' = NoBatch
    /\ similarity' = Zero
    /\ UNCHANGED <<documents, metadata>>

Next ==
    \/ \E text \in NewTexts, m \in MetadataArgs :
           AddDocument(text, m) /\ UNCHANGED <<returned, coordinator_vars>>
    \/ \E q \in Queries, k \in TopKs :
           Retrieve(q, k) /\ UNCHANGED <<returned, coordinator_vars>>
    \/ \E q \in Queries, c \in Categories, k \in TopKs :
           RetrieveByCategory(q, c, k) /\ UNCHANGED <<returned, coordinator_vars>>
    \/ \E queries \in QueryLists, k \in BatchTopKs :
           BatchRetrieve(queries, k) /\ UNCHANGED <<returned, coordinator_vars>>
    \/ \E q \in RelevanceQueries, d \in RelevanceDocuments, t \in ThresholdArgs :
           EvaluateRelevance(q, d, t) /\ UNCHANGED <<returned, coordinator_vars>>

Spec == Init /\ [][Next]_vars

(***************************************************************************)
(* _calculate_similarity on its own: every pair of SimilarityTexts         *)
(***************************************************************************)
CalculateSimilarity(q, d) ==
    /\ similarity' = calculate_similarity(q, d)
    /\ op' = "_calculate_similarity"
    /\ query' = q
    /\ document' = d
    /\ UNCHANGED <<documents, metadata, category, top_k, results,
                   attributes, threshold, relevant, batch, returned, coordinator_vars>>

NextSimilarity == \E q \in SimilarityTexts, d \in SimilarityTexts : CalculateSimilarity(q, d)

SpecSimilarity == Init /\ [][NextSimilarity]_vars

(***************************************************************************)
(* add_document followed by a category search for the added text           *)
(***************************************************************************)
NextAppend ==
    \/ \E text \in AppendTexts, m \in MetadataArgs :
           AddDocument(text, m) /\ UNCHANGED <<returned, coordinator_vars>>
    \/ \E q \in AppendTexts, c \in Categories, k \in BatchTopKs :
           RetrieveByCategory(q, c, k) /\ UNCHANGED <<returned, coordinator_vars>>

SpecAppend == Init /\ [][NextAppend]_vars

(***************************************************************************)
(* retrieve called again and again on one corpus, other calls in between;  *)
(* returned keeps the first answer to each (query, top_k) and is emptied   *)
(* when add_document changes the corpus                                    *)
(***************************************************************************)
RepeatQueries == {QueryGPA, TextExamHall}

RecordReturn(q, k) ==
    returned' =
        [key \in DOMAIN returned \cup {<<q, k>>} |->
            IF key # <<q, k>> THEN returned[key]
            ELSE IF key \in DOMAIN returned
                 THEN [first |-> returned[key].first, again |-> TRUE]
                 ELSE [first |-> results', again |-> FALSE]]

NextRepeat ==
    \/ \E m \in MetadataArgs :
           AddDocument(TextExamHall, m) /\ returned' = NoReturned /\ UNCHANGED coordinator_vars
    \/ \E q \in RepeatQueries, k \in BatchTopKs :
           Retrieve(q, k) /\ RecordReturn(q, k) /\ UNCHANGED coordinator_vars
    \/ \E q \in RepeatQueries :
           RetrieveByCategory(q, "exam", 1) /\ UNCHANGED <<returned, coordinator_vars>>
    \/ \E q \in RelevanceQueries :
           EvaluateRelevance(q, TextGoodStanding, NoThreshold) /\ UNCHANGED <<returned, coordinator_vars>>

SpecRepeat == Init /\ [][NextRepeat]_vars

(***************************************************************************)
(* The coordinator: process_query calls on the retrieval agent's corpus,   *)
(* to which RetrievalAgent.add_document may add a text that is no string   *)
(***************************************************************************)
MaxHistory == 2

FaultSets ==
    { {}, {"predict"}, {"predict", "predict_with_keywords"}, {"retrieve"}, {"policy"},
      {"verification"}, {"interaction"} }

ProcessQuery(q, v, f) ==
    /\ Len(conversation_history) < MaxHistory
    /\ \E out \in {process_query(documents, metadata, q, v, f)} :
           /\ result' = out.outcome
           /\ conversation_history' = conversation_history \o out.appended
           /\ succeeded' = succeeded \o SuccessEntries(ReturnedBy(out.outcome))
    /\ op' = "process_query"
    /\ query' = q
    /\ verbose' = v
    /\ faults' = f
    /\ category' = ""
    /\ top_k' = 0
    /\ results' = NoResults
    /\ attributes' = NoAttributes
    /\ document' = << >>
    /\ threshold' = NoThreshold
    /\ relevant' = FALSE
    /\ batch' = NoBatch
    /\ similarity' = Zero
    /\ UNCHANGED <<documents, metadata, returned, classified,
                   information_text,
                   verification,
                   execution_log,
                   handled,
                   atomic_add,
                   writer,
                   reader,
                   gui>>

NextCoordinator ==
    \/ \E q \in CoordinatorQueries, v \in BOOLEAN, f \in FaultSets : ProcessQuery(q, v, f)
    \/ \E m \in MetadataArgs :
           AddDocument(None, m) /\ UNCHANGED <<returned, coordinator_vars>>

SpecCoordinator == Init /\ [][NextCoordinator]_vars

(***************************************************************************)
(* Category-scoped retrieval on its own: add_document and                  *)
(* retrieve_by_category over the arguments of Spec                         *)
(***************************************************************************)
NextCategory ==
    \/ \E text \in NewTexts, m \in MetadataArgs :
           AddDocument(text, m) /\ UNCHANGED <<returned, coordinator_vars>>
    \/ \E q \in Queries, c \in Categories, k \in TopKs :
           RetrieveByCategory(q, c, k) /\ UNCHANGED <<returned, coordinator_vars>>

SpecCategory == Init /\ [][NextCategory]_vars

(***************************************************************************)
(* The desktop window (gui.py).  The main thread runs the Qt event loop:   *)
(* it handles the user's input and the signals of the worker threads, one  *)
(* handler at a time.  A disabled widget takes no input, so returnPressed  *)
(* needs an enabled query_input and clicked an enabled send_button.  A     *)
(* signal emitted by a worker thread is queued to the main thread and      *)
(* delivered in emission order.                                            *)
(***************************************************************************)
MaxSubmissions == 2

\* what the user types into query_input
GuiTexts == { << >>, <<" ", " ">>, <<" ", "z", "z", "z", " ">>, QueryEligibility }

\* str.strip()
Strip(text) ==
    LET kept == {i \in 1..Len(text) : text[i] \notin Whitespace}
    IN  IF kept = {} THEN << >>
        ELSE SubSeq(text,
                    CHOOSE i \in kept : \A j \in kept : i <= j,
                    CHOOSE i \in kept : \A j \in kept : j <= i)

\* QueryProcessorThread(self.coordinator, query), not yet started
QueryProcessorThread(q) == [query |-> q, pc |-> "created"]

\* EducationAssistantGUI.process_query without the lines that disable the controls
gui_process_query_keeping_enabled(g) ==
    LET q == Strip(g.text)
    IN  IF q = << >>
        THEN [g EXCEPT !.message_box = "Empty Query"]
        ELSE [g EXCEPT !.progress_bar = TRUE,
                       !.text = << >>,
                       !.status_bar = "Processing query...",
                       !.workers = Append(@, [QueryProcessorThread(q) EXCEPT !.pc = "started"])]

\* EducationAssistantGUI.process_query
gui_process_query(g) ==
    LET q == Strip(g.text)
    IN  IF q = << >>
        THEN [g EXCEPT !.message_box = "Empty Query"]
        ELSE [g EXCEPT !.send_button = FALSE,
                       !.query_input = FALSE,
                       !.progress_bar = TRUE,
                       !.text = << >>,
                       !.status_bar = "Processing query...",
                       !.workers = Append(@, [QueryProcessorThread(q) EXCEPT !.pc = "started"])]

\* the row add_to_history gets from on_result_received
HistoryRow(r) ==
    [query |-> r.query,
     intent |-> IF "intent" \in DOMAIN r.workflow
                THEN r.workflow["intent"].intent ELSE "Unknown",
     status |-> IF r.status = "success" THEN "Success" ELSE "Failed"]

\* EducationAssistantGUI.on_result_received
on_result_received(g, r) ==
    [g EXCEPT !.history_table = Append(@, HistoryRow(r)),
              !.send_button = TRUE,
              !.query_input = TRUE,
              !.progress_bar = FALSE,
              !.status_bar = "Ready"]

\* EducationAssistantGUI.on_error
on_error(g, error_msg) ==
    [g EXCEPT !.send_button = TRUE,
              !.query_input = TRUE,
              !.progress_bar = FALSE,
              !.status_bar = "Error occurred",
              !.message_box = "Error"]

\* EducationAssistantGUI.update_progress
update_progress(g, message) == [g EXCEPT !.status_bar = message]

\* the variables no step of the window or of a worker changes
gui_frame_vars ==
    <<documents, metadata, query, category, top_k, results, attributes, document,
      threshold, relevant, batch, similarity, returned, verbose, faults, classified,
      information_text, verification, execution_log, handled, atomic_add, writer, reader>>

coordinator_call_vars == <<result, conversation_history, succeeded>>

\* the user edits the text of query_input
SetText(text) ==
    /\ gui.query_input
    /\ gui.text # text
    /\ gui' = [gui EXCEPT !.text = text]
    /\ op' = "set_text"
    /\ UNCHANGED <<gui_frame_vars, coordinator_call_vars>>

\* send_button.clicked
ClickSend ==
    /\ gui.send_button
    /\ Strip(gui.text) = << >> \/ Len(gui.workers) < MaxSubmissions
    /\ gui' = gui_process_query(gui)
    /\ op' = "clicked"
    /\ UNCHANGED <<gui_frame_vars, coordinator_call_vars>>

\* query_input.returnPressed
PressReturn ==
    /\ gui.query_input
    /\ Strip(gui.text) = << >> \/ Len(gui.workers) < MaxSubmissions
    /\ gui' = gui_process_query(gui)
    /\ op' = "returnPressed"
    /\ UNCHANGED <<gui_frame_vars, coordinator_call_vars>>

\* the queries the window can hand to a worker
GuiQueries == {Strip(text) : text \in GuiTexts} \ {<< >>}

\* coordinator.process_query(query, verbose=False) on the built-in corpus, computed once
ProcessedOf ==
    [q \in GuiQueries |->
        process_query([i \in 1..Len(sample_documents) |-> sample_documents[i].text],
                      sample_documents, q, FALSE, {})]

\* self.coordinator.process_query(self.query, verbose=False)
worker_process_query(q) ==
    IF /\ q \in GuiQueries
       /\ metadata = sample_documents
       /\ documents = [i \in 1..Len(sample_documents) |-> sample_documents[i].text]
    THEN ProcessedOf[q]
    ELSE process_query(documents, metadata, q, FALSE, {})

\* QueryProcessorThread.run up to the call of process_query
WorkerBegin(w) ==
    /\ gui.workers[w].pc = "started"
    /\ gui' = [gui EXCEPT !.workers[w].pc = "in_process_query",
                          !.signals = Append(@, [signal |-> "progress", worker |-> w,
                                                 message |-> "Processing your query..."])]
    /\ op' = "run"
    /\ UNCHANGED <<gui_frame_vars, coordinator_call_vars>>

\* QueryProcessorThread.run: process_query returns and finished is emitted
WorkerFinish(w) ==
    /\ gui.workers[w].pc = "in_process_query"
    /\ \E out \in {worker_process_query(gui.workers[w].query)} :
           /\ ~out.outcome.raised
           /\ result' = out.outcome
           /\ conversation_history' = conversation_history \o out.appended
           /\ succeeded' = succeeded \o SuccessEntries(ReturnedBy(out.outcome))
           /\ gui' = [gui EXCEPT !.workers[w].pc = "done",
                                 !.signals = Append(@, [signal |-> "finished", worker |-> w,
                                                        result |-> out.outcome.value])]
    /\ op' = "run"
    /\ UNCHANGED gui_frame_vars

\* QueryProcessorThread.run: an exception leaves process_query (it builds its result dict
\* before its try block, so this takes a failure of the host such as MemoryError) and error
\* is emitted
WorkerFail(w) ==
    /\ gui.workers[w].pc = "in_process_query"
    /\ gui' = [gui EXCEPT !.workers[w].pc = "done",
                          !.signals = Append(@, [signal |-> "error", worker |-> w,
                                                 message |-> ""])]
    /\ op' = "run"
    /\ UNCHANGED <<gui_frame_vars, coordinator_call_vars>>

WorkerStep == \E w \in DOMAIN gui.workers : WorkerBegin(w) \/ WorkerFinish(w) \/ WorkerFail(w)

\* the event loop delivers the oldest queued signal to its slot
DeliverSignal ==
    /\ gui.signals # << >>
    /\ LET s == Head(gui.signals)
           g == [gui EXCEPT !.signals = Tail(@)]
       IN  CASE s.signal = "progress" ->
                    gui' = update_progress(g, s.message) /\ op' = "update_progress"
             [] s.signal = "finished" ->
                    gui' = on_result_received(g, s.result) /\ op' = "on_result_received"
             [] s.signal = "error" ->
                    gui' = on_error(g, s.message) /\ op' = "on_error"
    /\ UNCHANGED <<gui_frame_vars, coordinator_call_vars>>

InitGui == Init

NextGui ==
    \/ \E text \in GuiTexts : SetText(text)
    \/ ClickSend
    \/ PressReturn
    \/ \E w \in DOMAIN gui.workers : WorkerBegin(w)
    \/ \E w \in DOMAIN gui.workers : WorkerFinish(w)
    \/ \E w \in DOMAIN gui.workers : WorkerFail(w)
    \/ DeliverSignal

SpecGui == InitGui /\ [][NextGui]_vars

\* the operating system runs a started thread, and app.exec_() keeps delivering queued signals
FairSpecGui == SpecGui /\ WF_vars(WorkerStep) /\ WF_vars(DeliverSignal)

(***************************************************************************)
(* Conversations: process_query, handle_conversation, reset_conversation   *)
(* and log_execution in any order                                          *)
(***************************************************************************)
ConversationLists ==
    { << >>, <<QueryEligibility, None, QueryNoOverlap>>, <<None, QueryEligibility>> }

LogEntries == {"query received"}

MaxLog == 1

HandleConversation(queries, f) ==
    /\ \E out \in {handle_conversation(documents, metadata, queries, f)} :
           /\ Len(conversation_history \o out.appended) <= MaxHistory
           /\ handled' = out.results
           /\ conversation_history' = conversation_history \o out.appended
           /\ succeeded' = succeeded \o SuccessEntries(out.results)
    /\ op' = "handle_conversation"
    /\ faults' = f
    /\ verbose' = FALSE
    /\ UNCHANGED <<documents, metadata, query, category, top_k, results, attributes,
                   document, threshold, relevant, batch, similarity, returned,
                   result, classified, information_text, verification, execution_log,
                   atomic_add, writer, reader,
                   gui>>

ResetConversation ==
    /\ conversation_history' = << >>
    /\ execution_log' = << >>
    /\ succeeded' = << >>
    /\ op' = "reset_conversation"
    /\ UNCHANGED <<documents, metadata, query, category, top_k, results, attributes,
                   document, threshold, relevant, batch, similarity, returned,
                   result, verbose, faults, classified, information_text, verification,
                   handled,
                   atomic_add, writer, reader,
                   gui>>

LogExecution(log_entry) ==
    /\ Len(execution_log) < MaxLog
    /\ execution_log' = Append(execution_log, log_entry)
    /\ op' = "log_execution"
    /\ UNCHANGED <<documents, metadata, query, category, top_k, results, attributes,
                   document, threshold, relevant, batch, similarity, returned,
                   result, conversation_history, verbose, faults, classified,
                   information_text, verification, handled, succeeded,
                   atomic_add, writer, reader,
                   gui>>

NextConversation ==
    \/ \E q \in CoordinatorQueries, v \in BOOLEAN : ProcessQuery(q, v, {})
    \/ \E queries \in ConversationLists : HandleConversation(queries, {})
    \/ ResetConversation
    \/ \E log_entry \in LogEntries : LogExecution(log_entry)
    \/ AddDocument(None, [given |-> FALSE, dict |-> EmptyDict])
           /\ UNCHANGED <<returned, coordinator_vars>>

SpecConversation == Init /\ [][NextConversation]_vars

(***************************************************************************)
(* The intent classifier on its own: predict applied to queries made of    *)
(* up to MaxWords words of a small vocabulary, joined by single spaces     *)
(***************************************************************************)
MaxWords == 5

Vocabulary ==
    { <<"A","p","p","l","y">>, <<"E","x","a","m">>, <<"p","o","l","i","c","y">>,
      <<"c","r","e","d","i","t">>, <<"z","z","z">> }

RECURSIVE Join(_)
Join(words) ==
    IF Len(words) = 0 THEN << >>
    ELSE IF Len(words) = 1 THEN words[1]
    ELSE words[1] \o <<" ">> \o Join(Tail(words))

ClassifierQueries ==
    {Join(words) : words \in UNION {[1..n -> Vocabulary] : n \in 0..MaxWords}}

\* the state after construction, with the query that predict is to be given
InitClassifier ==
    /\ documents = [i \in 1..Len(sample_documents) |-> sample_documents[i].text]
    /\ metadata = sample_documents
    /\ op = "init"
    /\ query \in ClassifierQueries
    /\ category = ""
    /\ top_k = 0
    /\ results = NoResults
    /\ attributes = NoAttributes
    /\ document = << >>
    /\ threshold = NoThreshold
    /\ relevant = FALSE
    /\ batch = NoBatch
    /\ similarity = Zero
    /\ returned = NoReturned
    /\ result = NoResult
    /\ conversation_history = << >>
    /\ verbose = FALSE
    /\ faults = {}
    /\ classified = NoPrediction
    /\ information_text = << >>
    /\ verification = NoVerification
    /\ execution_log = << >>
    /\ handled = << >>
    /\ succeeded = << >>
    /\ atomic_add = FALSE
    /\ writer = WriterIdle
    /\ reader = ReaderIdle
    /\ gui = NewWindow

Predict ==
    /\ op = "init"
    /\ op' = "predict"
    /\ classified' = predict(query)
    /\ UNCHANGED <<documents, metadata, query, category, top_k, results, attributes,
                   document, threshold, relevant, batch, similarity, returned,
                   result, conversation_history, verbose, faults,
                   information_text,
                   verification,
                   execution_log,
                   handled,
                   succeeded,
                   atomic_add,
                   writer,
                   reader,
                   gui>>

NextClassifier == Predict

SpecClassifier == InitClassifier /\ [][NextClassifier]_vars

(***************************************************************************)
(* The verification agent on its own: process applied to the dicts         *)
(* {"data": text}, text made of up to MaxFragments fragments              *)
(***************************************************************************)
MaxFragments == 3

\* "gpa 5.0 6.5 4.1 7.0 9.9 "
FragmentBadGpa ==
    <<"g","p","a"," ","5",".","0"," ","6",".","5"," ","4",".","1"," ","7",".","0"," ","9",".","9"," ">>

\* "min gpa 4.0 "
FragmentGoodGpa ==
    <<"m","i","n"," ","g","p","a"," ","4",".","0"," ">>

\* "SAT 1400, ACT 99, SAT 20000 "
FragmentScores ==
    <<"S","A","T"," ","1","4","0","0",","," ","A","C","T"," ","9","9",","," ","S","A","T"," ","2","0","0","0","0"," ">>

\* "must not admission "
FragmentMustNot ==
    <<"m","u","s","t"," ","n","o","t"," ","a","d","m","i","s","s","i","o","n"," ">>

Fragments == {FragmentBadGpa, FragmentGoodGpa, FragmentScores, FragmentMustNot}

RECURSIVE Concat(_)
Concat(parts) == IF Len(parts) = 0 THEN << >> ELSE parts[1] \o Concat(Tail(parts))

\* str({"data": text})
StrOfData(text) ==
    <<"{","'","d","a","t","a","'",":"," ","'">> \o text \o <<"'","}">>

Informations ==
    {StrOfData(Concat(parts)) : parts \in UNION {[1..n -> Fragments] : n \in 0..MaxFragments}}

\* the state after construction, with the dict's text that process is to be given
InitVerification ==
    /\ documents = [i \in 1..Len(sample_documents) |-> sample_documents[i].text]
    /\ metadata = sample_documents
    /\ op = "init"
    /\ query = << >>
    /\ category = ""
    /\ top_k = 0
    /\ results = NoResults
    /\ attributes = NoAttributes
    /\ document = << >>
    /\ threshold = NoThreshold
    /\ relevant = FALSE
    /\ batch = NoBatch
    /\ similarity = Zero
    /\ returned = NoReturned
    /\ result = NoResult
    /\ conversation_history = << >>
    /\ verbose = FALSE
    /\ faults = {}
    /\ classified = NoPrediction
    /\ information_text \in Informations
    /\ verification = NoVerification
    /\ execution_log = << >>
    /\ handled = << >>
    /\ succeeded = << >>
    /\ atomic_add = FALSE
    /\ writer = WriterIdle
    /\ reader = ReaderIdle
    /\ gui = NewWindow

Verify ==
    /\ op = "init"
    /\ op' = "verify"
    /\ verification' = verification_process(information_text)
    /\ UNCHANGED <<documents, metadata, query, category, top_k, results, attributes,
                   document, threshold, relevant, batch, similarity, returned,
                   result, conversation_history, verbose, faults, classified, information_text,
                   execution_log, handled, succeeded, atomic_add, writer, reader,
                   gui>>

NextVerification == Verify

SpecVerification == InitVerification /\ [][NextVerification]_vars

(***************************************************************************)
(* add_document and retrieve called from two threads of a hosting system.  *)
(* A thread switch can fall between any two statements; each list          *)
(* operation (append, index, the loop over self.documents) is one step.    *)
(***************************************************************************)
RaceQueries == {TextExamHall, QueryGPA}

RaceTopKs == {1, DefaultTopK}

\* the state after construction; the host either runs add_document atomically
\* (a single-writer lock that retrieve honours) or does not synchronise at all
InitRace ==
    /\ documents = [i \in 1..Len(sample_documents) |-> sample_documents[i].text]
    /\ metadata = sample_documents
    /\ op = "init"
    /\ query = << >>
    /\ category = ""
    /\ top_k = 0
    /\ results = NoResults
    /\ attributes = NoAttributes
    /\ document = << >>
    /\ threshold = NoThreshold
    /\ relevant = FALSE
    /\ batch = NoBatch
    /\ similarity = Zero
    /\ returned = NoReturned
    /\ result = NoResult
    /\ conversation_history = << >>
    /\ verbose = FALSE
    /\ faults = {}
    /\ classified = NoPrediction
    /\ information_text = << >>
    /\ verification = NoVerification
    /\ execution_log = << >>
    /\ handled = << >>
    /\ succeeded = << >>
    /\ atomic_add \in BOOLEAN
    /\ writer = WriterIdle
    /\ reader = ReaderIdle
    /\ gui = NewWindow

rag_call_vars ==
    <<op, query, category, top_k, results, attributes, document, threshold, relevant,
      batch, similarity, returned>>

\* add_document as one step
AtomicAddDocument(text, m) ==
    /\ atomic_add
    /\ AddDocument(text, m)
    /\ UNCHANGED <<returned, coordinator_vars>>

\* self.documents.append(text)
AppendText(text, m) ==
    /\ ~atomic_add
    /\ writer.pc = "idle"
    /\ Len(documents) < Len(sample_documents) + MaxAdded
    /\ documents' = Append(documents, text)
    /\ writer' = [pc |-> "text_appended", text |-> text, metadata |-> m]
    /\ UNCHANGED <<metadata, rag_call_vars, result, conversation_history, verbose, faults,
                   classified, information_text, verification, execution_log, handled,
                   succeeded, atomic_add, reader,
                   gui>>

\* self.metadata.append(metadata or {})
AppendMetadata ==
    /\ writer.pc = "text_appended"
    /\ metadata' = Append(metadata, OrEmpty(writer.metadata))
    /\ writer' = WriterIdle
    /\ UNCHANGED <<documents, rag_call_vars, result, conversation_history, verbose, faults,
                   classified, information_text, verification, execution_log, handled,
                   succeeded, atomic_add, reader,
                   gui>>

\* the scoring loop, the sort and the slice scores[:top_k]
StartRetrieve(q, k) ==
    /\ reader.pc # "formatting"
    /\ reader' = [pc |-> "formatting", query |-> q, top_k |-> k,
                  top |-> Slice(SortByScoreDesc(Scores(documents, q)), k),
                  results |-> << >>]
    /\ UNCHANGED <<documents, metadata, rag_call_vars, result, conversation_history,
                   verbose, faults, classified, information_text, verification,
                   execution_log, handled, succeeded, atomic_add, writer,
                   gui>>

\* one turn of the formatting loop: self.metadata[idx] raises IndexError when the
\* attributes of idx are not there yet
FormatNext ==
    /\ reader.pc = "formatting"
    /\ Len(reader.results) < Len(reader.top)
    /\ LET rank == Len(reader.results) + 1
           entry == reader.top[rank]
       IN  reader' =
               IF entry[1] > Len(metadata)
               THEN [pc |-> "raised", query |-> reader.query, top_k |-> reader.top_k,
                     error |-> "list index out of range", index |-> entry[1]]
               ELSE [reader EXCEPT
                        !.results = Append(@, FormatResult(documents, metadata, rank, entry))]
    /\ UNCHANGED <<documents, metadata, rag_call_vars, result, conversation_history,
                   verbose, faults, classified, information_text, verification,
                   execution_log, handled, succeeded, atomic_add, writer,
                   gui>>

\* return results
ReturnResults ==
    /\ reader.pc = "formatting"
    /\ Len(reader.results) = Len(reader.top)
    /\ reader' = [pc |-> "returned", query |-> reader.query, top_k |-> reader.top_k,
                  results |-> reader.results]
    /\ UNCHANGED <<documents, metadata, rag_call_vars, result, conversation_history,
                   verbose, faults, classified, information_text, verification,
                   execution_log, handled, succeeded, atomic_add, writer,
                   gui>>

NextRace ==
    \/ \E text \in NewTexts, m \in MetadataArgs : AtomicAddDocument(text, m)
    \/ \E text \in NewTexts, m \in MetadataArgs : AppendText(text, m)
    \/ AppendMetadata
    \/ \E q \in RaceQueries, k \in RaceTopKs : StartRetrieve(q, k)
    \/ FormatNext
    \/ ReturnResults

SpecRace == InitRace /\ [][NextRace]_vars

(***************************************************************************)
(* The ranking, stated without the sort: a document's place is one more    *)
(* than the number of documents that go before it, where i goes before j   *)
(* when it scores higher, or scores the same and was inserted earlier.     *)
(***************************************************************************)
ScoreOf(j) == calculate_similarity(query, documents[j])

GoesBefore(i, j) ==
    \/ Less(ScoreOf(j), ScoreOf(i))
    \/ ScoreOf(i) = ScoreOf(j) /\ i < j

PlaceOf(j) == 1 + Cardinality({i \in 1..Len(documents) : GoesBefore(i, j)})

IndexAtPlace(p) == CHOOSE j \in 1..Len(documents) : PlaceOf(j) = p

\* result r shows document j
Shows(r, j) == r.text = documents[j] /\ r.metadata = metadata[j]

SameDocument(i, j) == documents[i] = documents[j] /\ metadata[i] = metadata[j]

Smaller(a, b) == IF a < b THEN a ELSE b

IsSampleCorpus ==
    /\ Len(documents) = Len(sample_documents)
    /\ \A j \in 1..Len(documents) : documents[j] = sample_documents[j].text
    /\ metadata = sample_documents

(***************************************************************************)
(* C1: after retrieve(query, top_k) with top_k >= 0 on any corpus built    *)
(* from the built-in one by add_document calls, the result holds exactly   *)
(* min(top_k, corpus size) entries; with top_k = 0 it is empty.            *)
(***************************************************************************)
C1_TopKSizeLaw ==
    (op = "retrieve" /\ top_k >= 0) =>
        /\ Len(results) = Smaller(top_k, Len(documents))
        /\ top_k = 0 => results = << >>

\* a retrieve that asked for more than a grown corpus holds and got all of it
C1_Witness ==
    /\ op = "retrieve"
    /\ Len(documents) > Len(sample_documents)
    /\ top_k > Len(documents)
    /\ Len(results) = Len(documents)

(***************************************************************************)
(* C2: after retrieve(query, top_k) with a negative top_k the result is    *)
(* the empty sequence.                                                     *)
(***************************************************************************)
C2_NegativeTopKEmpty ==
    (op = "retrieve" /\ top_k < 0) => results = << >>

(***************************************************************************)
(* C3: the scores of a retrieve result never increase from one position to *)
(* the next, and no document left out scores higher than the last result:  *)
(* the documents scoring above the last result are no more than the        *)
(* results scoring above it.                                               *)
(***************************************************************************)
C3_RankingOrder ==
    op = "retrieve" =>
        /\ \A i \in 1..(Len(results) - 1) :
               Leq(results[i + 1].similarity_score, results[i].similarity_score)
        /\ Len(results) > 0 =>
               LET last == results[Len(results)].similarity_score
               IN  Cardinality({j \in 1..Len(documents) : Less(last, ScoreOf(j))})
                       <= Cardinality({i \in 1..Len(results) :
                                           Less(last, results[i].similarity_score)})

\* strictly decreasing scores at the top, and a positive-scoring document left out
C3_Witness ==
    /\ op = "retrieve"
    /\ Len(results) >= 2
    /\ Len(results) < Len(documents)
    /\ Less(results[2].similarity_score, results[1].similarity_score)
    /\ Less(Zero, results[Len(results)].similarity_score)
    /\ \E j \in 1..Len(documents) :
           /\ Less(Zero, ScoreOf(j))
           /\ \A i \in 1..Len(results) : ~Shows(results[i], j)

(***************************************************************************)
(* C4: of two different documents with the same score, the one inserted    *)
(* later appears in a retrieve result only behind the one inserted         *)
(* earlier; so when only one of them fits, it is the earlier one.          *)
(***************************************************************************)
C4_TieBreakInsertionOrder ==
    op = "retrieve" =>
        \A i \in 1..Len(documents), j \in 1..Len(documents) :
            (i < j /\ ScoreOf(i) = ScoreOf(j) /\ ~SameDocument(i, j)) =>
                \A p \in 1..Len(results) :
                    Shows(results[p], j) =>
                        \E b \in 1..(p - 1) : Shows(results[b], i)

\* two documents tie on a positive score and only the earlier one fits
C4_Witness ==
    /\ op = "retrieve"
    /\ Len(results) > 0
    /\ \E i \in 1..Len(documents), j \in 1..Len(documents) :
           /\ i < j
           /\ ScoreOf(i) = ScoreOf(j)
           /\ Less(Zero, ScoreOf(i))
           /\ Shows(results[Len(results)], i)
           /\ \A p \in 1..Len(results) : ~Shows(results[p], j)

(***************************************************************************)
(* C5: every result of retrieve_by_category carries a category attribute   *)
(* equal, character for character, to the category asked for; a category   *)
(* that no document of the corpus carries gives the empty result.          *)
(***************************************************************************)
C5_CategoryFilter ==
    op = "retrieve_by_category" =>
        /\ \A i \in 1..Len(results) :
               /\ "category" \in DOMAIN results[i].metadata
               /\ results[i].metadata["category"] = category
        /\ (\A j \in 1..Len(documents) :
                "category" \in DOMAIN metadata[j] => metadata[j]["category"] # category)
               => results = << >>

\* a document without a category outranks every result and is filtered out
C5_Witness ==
    /\ op = "retrieve_by_category"
    /\ Len(results) > 0
    /\ \E j \in 1..Len(documents) :
           /\ "category" \notin DOMAIN metadata[j]
           /\ Less(results[1].similarity_score, ScoreOf(j))

(***************************************************************************)
(* C6: for top_k >= 0, retrieve_by_category returns the documents of the   *)
(* asked category found among the first 3 * top_k places of the ranking of *)
(* the whole corpus, in ranking order, cut to the first top_k, each as     *)
(* retrieve reports it; documents ranked behind place 3 * top_k are never  *)
(* looked at.                                                              *)
(***************************************************************************)
HasCategory(j, c) == "category" \in DOMAIN metadata[j] /\ metadata[j]["category"] = c

\* the places within the candidate pool that hold a document of category c
MatchingPlaces(c, k) ==
    {p \in 1..Smaller(3 * k, Len(documents)) : HasCategory(IndexAtPlace(p), c)}

NthOf(S, n) == CHOOSE p \in S : Cardinality({x \in S : x < p}) = n - 1

ResultAtPlace(p) ==
    LET j == IndexAtPlace(p)
    IN  [rank |-> p,
         text |-> documents[j],
         metadata |-> metadata[j],
         similarity_score |-> ScoreOf(j),
         distance |-> OneMinus(ScoreOf(j))]

C6_OversampleThenFilter ==
    (op = "retrieve_by_category" /\ top_k >= 0) =>
        LET places == MatchingPlaces(category, top_k)
        IN  /\ Len(results) = Smaller(top_k, Cardinality(places))
            /\ \A i \in 1..Len(results) : results[i] = ResultAtPlace(NthOf(places, i))

\* some but fewer than top_k results, while a document of the category stays outside
C6_Witness ==
    /\ op = "retrieve_by_category"
    /\ Len(results) >= 1
    /\ Len(results) < top_k
    /\ \E j \in 1..Len(documents) :
           /\ HasCategory(j, category)
           /\ \A i \in 1..Len(results) : ~Shows(results[i], j)

(***************************************************************************)
(* C7: retrieve_by_category can return fewer results than both top_k and   *)
(* the number of documents of the category: on the built-in corpus, for a  *)
(* query that shares no non-stop-word token with any document, category    *)
(* "academic_policy" and top_k = 3 the result is empty.                    *)
(***************************************************************************)
NoOverlap(q) ==
    \A j \in 1..Len(documents) : WordSetOf[q] \cap WordSetOf[documents[j]] = {}

C7_UnderReturn ==
    ( /\ op = "retrieve_by_category"
      /\ IsSampleCorpus
      /\ NoOverlap(query)
      /\ category = "academic_policy"
      /\ top_k = 3 ) => results = << >>

\* that call, made with a query of one unknown word, while five documents qualify
C7_Witness ==
    /\ op = "retrieve_by_category"
    /\ IsSampleCorpus
    /\ WordSetOf[query] # {}
    /\ NoOverlap(query)
    /\ category = "academic_policy"
    /\ top_k = 3
    /\ Cardinality({j \in 1..Len(documents) : HasCategory(j, category)}) = 5
    /\ Len(results) < Smaller(top_k, 5)

(***************************************************************************)
(* C8: in a retrieve_by_category result, the rank of the i-th entry        *)
(* (counting from 1) is i.                                                 *)
(***************************************************************************)
C8_CategoryRankIsPosition ==
    (op = "retrieve_by_category" /\ top_k >= 0) =>
        \A i \in 1..Len(results) : results[i].rank = i

(***************************************************************************)
(* C9: in a retrieve result with top_k >= 0, the i-th entry has rank i and *)
(* the text and attributes of the document that the ranking puts at        *)
(* place i.                                                                *)
(***************************************************************************)
C9_RankAndDocument ==
    (op = "retrieve" /\ top_k >= 0) =>
        \A i \in 1..Len(results) :
            /\ results[i].rank = i
            /\ Shows(results[i], IndexAtPlace(i))

\* an added document is ranked first, ahead of the built-in ones
C9_Witness ==
    /\ op = "retrieve"
    /\ top_k >= 2
    /\ Len(documents) > Len(sample_documents)
    /\ Len(results) >= 2
    /\ IndexAtPlace(1) = Len(documents)
    /\ IndexAtPlace(2) # 1
    /\ results[1].rank = 1
    /\ results[1].text = documents[Len(documents)]

(***************************************************************************)
(* C10: a score is the Jaccard index of the two token sets, a token being  *)
(* the lower-cased form of a maximal run of non-whitespace characters that *)
(* is not a stop word: |Q \cap D| / |Q \cup D|, and 0.0 when both sets are *)
(* empty.                                                                  *)
(***************************************************************************)
StopWords ==
    { <<"a">>, <<"a","n">>, <<"t","h","e">>, <<"a","n","d">>, <<"o","r">>, <<"i","s">>,
      <<"a","r","e">>, <<"f","o","r">>, <<"o","f">>, <<"t","o">>, <<"i","n">> }

RunStarts(s) ==
    {b \in 1..Len(s) : s[b] \notin Whitespace /\ (b = 1 \/ s[b - 1] \in Whitespace)}

RunEnds(s) ==
    {e \in 1..Len(s) : s[e] \notin Whitespace /\ (e = Len(s) \/ s[e + 1] \in Whitespace)}

\* b..e is a maximal run of non-whitespace characters of s
IsRun(s, b, e) ==
    /\ b <= e
    /\ \A e2 \in RunEnds(s) : ~(b <= e2 /\ e2 < e)

TokenSet(s) ==
    {[i \in 1..(r[2] - r[1] + 1) |-> LowerChar(s[r[1] + i - 1])] :
        r \in {x \in RunStarts(s) \X RunEnds(s) : IsRun(s, x[1], x[2])}} \ StopWords

TokenSetOf == [text \in KnownTexts |-> TokenSet(text)]

IsJaccard(score, Q, D) ==
    IF Q \cup D = {}
    THEN score = Zero
    ELSE /\ score[2] > 0
         /\ score[1] * Cardinality(Q \cup D) = Cardinality(Q \cap D) * score[2]
         /\ Q \cap D = {} => score = Zero

C10_JaccardOfTokenSets ==
    op \in {"retrieve", "retrieve_by_category"} =>
        \A i \in 1..Len(results) :
            IsJaccard(results[i].similarity_score,
                      TokenSetOf[query], TokenSetOf[results[i].text])

\* a query and a document that both consist of stop words only
C10_Witness ==
    /\ op = "retrieve"
    /\ query # << >>
    /\ TokenSetOf[query] = {}
    /\ \E i \in 1..Len(results) :
           /\ results[i].text # << >>
           /\ TokenSetOf[results[i].text] = {}
           /\ results[i].similarity_score = Zero
    /\ \E i \in 1..Len(results) : TokenSetOf[results[i].text] # {}

(***************************************************************************)
(* C11: every similarity score a retrieval reports lies in [0, 1], and the *)
(* distance reported with it is 1 - score, so it lies in [0, 1] too.       *)
(***************************************************************************)
ScoreAndDistanceInRange(r) ==
    /\ r.similarity_score[2] > 0
    /\ r.distance[2] > 0
    /\ Leq(Zero, r.similarity_score) /\ Leq(r.similarity_score, One)
    /\ Leq(Zero, r.distance) /\ Leq(r.distance, One)
    \* score + distance = 1
    /\ r.similarity_score[1] * r.distance[2] + r.distance[1] * r.similarity_score[2]
           = r.similarity_score[2] * r.distance[2]

C11_ScoreAndDistanceRange ==
    /\ \A i \in 1..Len(results) : ScoreAndDistanceInRange(results[i])
    /\ \A q \in DOMAIN batch :
           \A i \in 1..Len(batch[q]) : ScoreAndDistanceInRange(batch[q][i])

\* both ends of the range in one result list: score 1 with distance 0, score 0
\* with distance 1, and a score strictly between them
C11_Witness ==
    /\ op = "retrieve"
    /\ \E i \in 1..Len(results) :
           results[i].similarity_score = One /\ results[i].distance = Zero
    /\ \E i \in 1..Len(results) :
           results[i].similarity_score = Zero /\ results[i].distance = One
    /\ \E i \in 1..Len(results) :
           Less(Zero, results[i].similarity_score) /\ Less(results[i].similarity_score, One)

(***************************************************************************)
(* C12: _calculate_similarity(query, document) is 1.0 exactly when the two *)
(* texts have the same set of lower-cased tokens that are not stop words   *)
(* and that set is not empty; so a text with such a token scores 1.0       *)
(* against itself and against any text that differs from it only in       *)
(* letter case, word order or repeated words.                              *)
(***************************************************************************)
C12_ScoreOneIffSameTokens ==
    op = "_calculate_similarity" =>
        /\ similarity = One <=>
               (TokenSetOf[query] = TokenSetOf[document] /\ TokenSetOf[query] # {})
        /\ (query = document /\ TokenSetOf[query] # {}) => similarity = One

\* two different texts, one a reordering of the other with other letter case
\* and a repeated word, score 1.0
C12_Witness ==
    /\ op = "_calculate_similarity"
    /\ query = TextHallExam
    /\ document = TextExamHall
    /\ Len(query) # Len(document)
    /\ similarity = One

(***************************************************************************)
(* C13: on the built-in corpus,                                            *)
(* retrieve("What is the eligibility for BS Electrical Engineering?", 1)   *)
(* returns the first built-in document (BS Electrical Engineering          *)
(* admission requirements) as its only, rank 1 result: its score is        *)
(* strictly greater than that of every other document, or tied with a      *)
(* later one.                                                              *)
(***************************************************************************)
C13_EligibilityQueryTopDocument ==
    (op = "retrieve" /\ IsSampleCorpus /\ query = QueryEligibility /\ top_k = 1) =>
        /\ Len(results) = 1
        /\ results[1].rank = 1
        /\ results[1].text = SampleText1
        /\ results[1].metadata = sample_documents[1]
        /\ \A j \in 2..Len(documents) :
               Leq(calculate_similarity(QueryEligibility, documents[j]),
                   results[1].similarity_score)

\* the call has been made, and the first document wins outright: 1/12 against
\* at most 2/25 for the others
C13_Witness ==
    /\ op = "retrieve" /\ IsSampleCorpus /\ query = QueryEligibility /\ top_k = 1
    /\ Len(results) = 1
    /\ results[1].text = SampleText1
    /\ results[1].similarity_score = <<1, 12>>
    /\ \A j \in 2..Len(documents) :
           Less(calculate_similarity(QueryEligibility, documents[j]), <<1, 12>>)
    /\ \E j \in 2..Len(documents) :
           calculate_similarity(QueryEligibility, documents[j]) = <<2, 25>>

(***************************************************************************)
(* C14: after add_document(t, {"category": "exam"}),                       *)
(* retrieve_by_category(t, "exam", 1) returns the added document as its    *)
(* only result, provided that document is among the first 3 entries of the *)
(* global ranking for the query t.                                         *)
(***************************************************************************)
\* document j was added by add_document(query, {"category": "exam"})
AddedAsExam(j) ==
    /\ j > Len(sample_documents)
    /\ documents[j] = query
    /\ metadata[j] = [category |-> "exam"]

IsAddedDocumentAlone(j) ==
    /\ Len(results) = 1
    /\ Shows(results[1], j)
    /\ results[1].similarity_score = One

C14_AddedExamDocumentOnTop ==
    (op = "retrieve_by_category" /\ category = "exam" /\ top_k = 1) =>
        \A j \in 1..Len(documents) :
            (AddedAsExam(j) /\ PlaceOf(j) <= OversampleFactor) => IsAddedDocumentAlone(j)

(***************************************************************************)
(* C14, amended: ... provided that document is among the first 3 entries   *)
(* of the global ranking for the query t and no document of category       *)
(* "exam" that was in the corpus before it has the same set of tokens as t *)
(* (such a document scores 1.0 too and, being earlier, is ranked ahead of  *)
(* the added one).                                                         *)
(***************************************************************************)
NoEarlierExamTwin(j) ==
    \A i \in 1..(j - 1) :
        HasCategory(i, "exam") => TokenSetOf[documents[i]] # TokenSetOf[query]

C14_AddedExamDocumentOnTopUnlessTwin ==
    (op = "retrieve_by_category" /\ category = "exam" /\ top_k = 1) =>
        \A j \in 1..Len(documents) :
            (AddedAsExam(j) /\ PlaceOf(j) <= OversampleFactor /\ NoEarlierExamTwin(j))
                => IsAddedDocumentAlone(j)

\* the added document is found although a built-in document of another
\* category, with the same tokens, is ranked ahead of it
C14_Witness ==
    /\ op = "retrieve_by_category" /\ category = "exam" /\ top_k = 1
    /\ \E j \in 1..Len(documents) :
           /\ AddedAsExam(j)
           /\ PlaceOf(j) = 2
           /\ NoEarlierExamTwin(j)
           /\ IsAddedDocumentAlone(j)
           /\ results[1].rank = 2

(***************************************************************************)
(* C15: add_document(text, attributes) appends exactly one document at the *)
(* end of the corpus, with an empty attribute mapping when attributes is   *)
(* absent: the length grows by 1, the new document is at the last index,   *)
(* and every document that was there keeps its index, text and attributes. *)
(* No operation ever deletes or rewrites a document.                       *)
(***************************************************************************)
KeepsEveryDocument ==
    /\ Len(documents') >= Len(documents)
    /\ Len(metadata') >= Len(metadata)
    /\ \A i \in 1..Len(documents) : documents'[i] = documents[i]
    /\ \A i \in 1..Len(metadata) : metadata'[i] = metadata[i]

AppendsOneDocument ==
    /\ Len(documents') = Len(documents) + 1
    /\ Len(metadata') = Len(metadata) + 1
    /\ documents'[Len(documents')] = query'
    /\ metadata'[Len(metadata')] =
           IF attributes'.given THEN attributes'.dict ELSE [key \in {} |-> ""]

C15_AddDocumentAppendsOne ==
    [][KeepsEveryDocument /\ (op' = "add_document" => AppendsOneDocument)]_vars

\* add_document without attributes has put the text, with an empty mapping,
\* after the 14 built-in documents
C15_Witness ==
    /\ op = "add_document"
    /\ ~attributes.given
    /\ Len(documents) = Len(sample_documents) + 1
    /\ \A i \in 1..Len(sample_documents) :
           documents[i] = sample_documents[i].text /\ metadata[i] = sample_documents[i]
    /\ documents[Len(documents)] = query
    /\ DOMAIN metadata[Len(metadata)] = {}

(***************************************************************************)
(* C16: in every state reached from construction by add_document,          *)
(* retrieve, retrieve_by_category, batch_retrieve and evaluate_relevance   *)
(* calls, the text sequence and the attribute sequence have the same       *)
(* length and index i of one describes the same document as index i of the *)
(* other.                                                                  *)
(***************************************************************************)
C16_TextsAndAttributesAligned ==
    /\ Len(documents) = Len(metadata)
    /\ DOMAIN documents = DOMAIN metadata
    \* a built-in document's attributes are the mapping its text was taken from
    /\ \A i \in 1..Len(sample_documents) :
           /\ i <= Len(documents)
           /\ "text" \in DOMAIN metadata[i]
           /\ metadata[i]["text"] = documents[i]
    \* an added document's attributes were given with its text
    /\ op = "add_document" =>
           /\ documents[Len(documents)] = query
           /\ metadata[Len(documents)] =
                  IF attributes.given THEN attributes.dict ELSE [key \in {} |-> ""]

\* a read call made after a document was added
C16_Witness ==
    /\ op \in {"batch_retrieve", "evaluate_relevance"}
    /\ Len(documents) = Len(sample_documents) + 1
    /\ Len(metadata) = Len(sample_documents) + 1
    /\ metadata[Len(metadata)] = [category |-> "exam"]

(***************************************************************************)
(* C17: retrieve, retrieve_by_category, batch_retrieve and                 *)
(* evaluate_relevance leave the corpus unchanged (same documents, same     *)
(* attributes, same order), and the value of evaluate_relevance does not   *)
(* depend on the corpus: for the arguments tried it is true for            *)
(* "minimum GPA" against "Minimum GPA to maintain good standing is 2.0"    *)
(* (at both thresholds) and false otherwise, whatever the corpus holds.    *)
(***************************************************************************)
ReadOperations == {"retrieve", "retrieve_by_category", "batch_retrieve", "evaluate_relevance"}

C17_ReadsLeaveCorpusUnchanged ==
    [][op' \in ReadOperations =>
           /\ documents' = documents
           /\ metadata' = metadata
           /\ op' = "evaluate_relevance" =>
                  relevant' = (query' = QueryMinimumGPA /\ document' = TextGoodStanding)]_vars

\* evaluate_relevance has answered on a corpus that was extended before the
\* call; the document asked about is not in the corpus
C17_Witness ==
    /\ op = "evaluate_relevance"
    /\ relevant
    /\ Len(documents) = Len(sample_documents) + 1
    /\ \A i \in 1..Len(documents) : documents[i] # document

(***************************************************************************)
(* C19: evaluate_relevance(query, document, threshold) is true exactly     *)
(* when the Jaccard similarity of the two texts is at least the threshold  *)
(* (equality counts), and the threshold is 0.2 when none is given. It is   *)
(* true for ("minimum GPA", "Minimum GPA to maintain good standing is      *)
(* 2.0", 0.2) and false for ("minimum GPA", "Scholarship deadlines vary by *)
(* department", 0.2).                                                      *)
(***************************************************************************)
\* |Q \cap D| / |Q \cup D| >= th, with 0.0 for two empty sets
JaccardAtLeast(Q, D, th) ==
    IF Q \cup D = {}
    THEN th[1] <= 0
    ELSE th[1] * Cardinality(Q \cup D) <= Cardinality(Q \cap D) * th[2]

C19_RelevantIffAtLeastThreshold ==
    op = "evaluate_relevance" =>
        /\ relevant <=>
               JaccardAtLeast(TokenSetOf[query], TokenSetOf[document],
                              IF threshold.given THEN threshold.value ELSE <<2, 10>>)
        /\ (~threshold.given /\ query = QueryMinimumGPA /\ document = TextGoodStanding)
               => relevant
        /\ (~threshold.given /\ query = QueryMinimumGPA /\ document = TextDeadlines)
               => ~relevant

\* the similarity equals the threshold given, 1/3, and the document is relevant
C19_Witness ==
    /\ op = "evaluate_relevance"
    /\ threshold.given
    /\ 3 * Cardinality(TokenSetOf[query] \cap TokenSetOf[document])
           = Cardinality(TokenSetOf[query] \cup TokenSetOf[document])
    /\ threshold.value = <<1, 3>>
    /\ relevant

IntentRaised == query = None \/ "predict" \in faults

\* the keyword fallback of the intent stage raised too
IntentEscaped ==
    IntentRaised /\ (query = None \/ "predict_with_keywords" \in faults)

RetrievalRaised ==
    /\ ~IntentEscaped
    /\ "retrieve" \in faults \/ \E i \in 1..Len(documents) : documents[i] = None

PolicyRaised == ~IntentEscaped /\ "policy" \in faults

\* the coordinator's own print of policy_result['num_policies'], a key the
\* policy result lacks when no document was retrieved
PrintRaised ==
    /\ ~IntentEscaped /\ ~PolicyRaised
    /\ verbose
    /\ result.value.workflow["retrieval"].documents_retrieved = 0

VerificationRaised ==
    ~IntentEscaped /\ ~PolicyRaised /\ ~PrintRaised /\ "verification" \in faults

InteractionRaised ==
    /\ ~IntentEscaped /\ ~PolicyRaised /\ ~PrintRaised /\ ~VerificationRaised
    /\ "interaction" \in faults

IsFailedResult(r) ==
    /\ r.status = "failed"
    /\ "error" \in DOMAIN r
    /\ r.final_response = "Error processing query: " \o r.error

SameAnswer(a, b) ==
    /\ a.raised = b.raised
    /\ ~a.raised =>
           /\ a.value.status = b.value.status
           /\ a.value.final_response = b.value.final_response
           /\ a.value.agents_executed = b.value.agents_executed

VerboseOnlyPrints(other) ==
    /\ SameAnswer(result', other.outcome)
    /\ conversation_history' = conversation_history \o other.appended

C21_VerboseOnlyPrints ==
    [][op' = "process_query" =>
           VerboseOnlyPrints(process_query(documents, metadata, query', ~verbose', faults'))]_vars

(***************************************************************************)
(* C22: the confidence IntentClassifier.predict returns is between 50% and *)
(* 100%: 0.5 <= confidence <= 1.0 for every query.                         *)
(***************************************************************************)
C22_ConfidenceAtLeastHalf ==
    op = "predict" =>
        /\ Leq(<<1, 2>>, classified.confidence)
        /\ Leq(classified.confidence, <<1, 1>>)

(***************************************************************************)
(* C23: VerificationAgent.process always yields a data_quality_score in    *)
(* [0, 1], equal to max(0, 1 - 0.1 * issues - 0.05 * warnings) for the     *)
(* numbers of issues and warnings it reports, and verified is false        *)
(* exactly when the issues list is non-empty.                              *)
(***************************************************************************)
Larger(a, b) == IF a > b THEN a ELSE b

StageAgents ==
    <<"Intent Agent", "Retrieval Agent", "Policy Agent", "Verification Agent",
      "Interaction Agent">>

StageKeys == <<"intent", "retrieval", "policy", "verification", "interaction">>

C24_StagesInFixedOrder ==
    (op = "process_query" /\ ~result.raised) =>
        LET r == result.value
        IN  /\ Len(r.agents_executed) <= Len(StageAgents)
            /\ r.agents_executed = SubSeq(StageAgents, 1, Len(r.agents_executed))
            /\ r.status = "success" => r.agents_executed = StageAgents
            /\ \A n \in 1..Len(StageKeys) :
                   StageKeys[n] \in DOMAIN r.workflow =>
                       \A m \in 1..(n - 1) : StageKeys[m] \in DOMAIN r.workflow

\* a verbose call stopped by the print after the policy stage: three stages ran
C24_Witness ==
    /\ op = "process_query"
    /\ faults = {}
    /\ ~result.raised
    /\ result.value.status = "failed"
    /\ result.value.agents_executed = <<"Intent Agent", "Retrieval Agent", "Policy Agent">>
    /\ DOMAIN result.value.workflow = {"intent", "retrieval", "policy"}

(***************************************************************************)
(* C25: after any sequence of process_query, handle_conversation and       *)
(* reset_conversation calls, conversation_history holds exactly one entry  *)
(* (query, intent, response) per process_query call that returned status   *)
(* "success" since the last reset, in call order; a call that returns      *)
(* status "failed" leaves conversation_history unchanged;                  *)
(* reset_conversation empties conversation_history and execution_log and   *)
(* changes nothing else, the retrieval corpus included.                    *)
(***************************************************************************)
C25_HistoryIsSuccessfulCalls ==
    [][/\ conversation_history' = succeeded'
       /\ (op' = "process_query" /\ result'.value.status = "failed")
              => conversation_history' = conversation_history
       /\ op' = "reset_conversation" =>
              /\ conversation_history' = << >>
              /\ execution_log' = << >>
              /\ documents' = documents
              /\ metadata' = metadata
              /\ result' = result
              /\ handled' = handled]_vars

\* a conversation of three queries whose second call failed: two entries, in call order
C25_Witness ==
    /\ op = "handle_conversation"
    /\ Len(handled) = 3
    /\ handled[1].status = "success"
    /\ handled[2].status = "failed"
    /\ handled[3].status = "success"
    /\ Len(conversation_history) = 2
    /\ conversation_history[1].query = QueryEligibility
    /\ conversation_history[1].intent = "admission"
    /\ conversation_history[1].response = handled[1].final_response
    /\ conversation_history[2].query = QueryNoOverlap
    /\ Len(execution_log) = 1

(***************************************************************************)
(* C26: if add_document runs concurrently with retrieve without external   *)
(* synchronisation, retrieve can observe the corpus between the append of  *)
(* the text and the append of its attributes (more texts than attributes)  *)
(* and then fail when it looks up the attributes of the new index; with    *)
(* add_document executed atomically that state is unreachable: texts and   *)
(* attributes are always equally many and retrieve never fails, so a       *)
(* failed retrieve only occurs without synchronisation, at an index whose  *)
(* text was there when retrieve scored the corpus.                         *)
(***************************************************************************)
C26_RaceOnlyWithoutAtomicAdd ==
    /\ atomic_add => (Len(documents) = Len(metadata) /\ reader.pc # "raised")
    /\ reader.pc = "raised" =>
           /\ ~atomic_add
           /\ reader.index > Len(sample_documents)
           /\ reader.index <= Len(documents)
    /\ Len(metadata) <= Len(documents)
    /\ Len(documents) <= Len(metadata) + 1

\* retrieve has failed on the new index while add_document is between its two appends
C26_Witness ==
    /\ ~atomic_add
    /\ writer.pc = "text_appended"
    /\ Len(documents) = Len(metadata) + 1
    /\ reader.pc = "raised"
    /\ reader.error = "list index out of range"
    /\ reader.index = Len(documents)

(***************************************************************************)
(* C27: for top_k >= 0 the result of retrieve_by_category(query, c, top_k) *)
(* is a prefix of the exact filtered ranking (the ranking of the whole     *)
(* corpus restricted to the documents of category c), and whenever         *)
(* 3 * top_k >= corpus size it is the first top_k entries of that ranking, *)
(* so it has min(top_k, number of documents of category c) results.        *)
(***************************************************************************)
\* the places of the whole ranking that hold a document of category c
ExactPlaces(c) == {p \in 1..Len(documents) : HasCategory(IndexAtPlace(p), c)}

C27_PrefixOfExactFilteredRanking ==
    (op = "retrieve_by_category" /\ top_k >= 0) =>
        LET exact == ExactPlaces(category)
        IN  /\ Len(results) <= Cardinality(exact)
            /\ \A i \in 1..Len(results) : results[i] = ResultAtPlace(NthOf(exact, i))
            /\ 3 * top_k >= Len(documents) =>
                   Len(results) =
                       Smaller(top_k, Cardinality({j \in 1..Len(documents) :
                                                      HasCategory(j, category)}))

\* the whole corpus is fetched and fewer documents of the category exist than asked for
C27_Witness ==
    /\ op = "retrieve_by_category"
    /\ top_k >= 0
    /\ 3 * top_k >= Len(documents)
    /\ 3 * top_k < 3 * Len(documents)
    /\ Len(results) >= 2
    /\ Len(results) < top_k
    /\ Len(results) = Cardinality({j \in 1..Len(documents) : HasCategory(j, category)})
    /\ results[2].rank > 2

(***************************************************************************)
(* C28: IntentClassifier.predict is total over all query strings, the      *)
(* empty string included (it never divides by zero), and always returns    *)
(* one of admission, exam, scholarship, academic_policy: it returns        *)
(* ("academic_policy", 0.5) exactly when no keyword of any intent occurs   *)
(* as a substring of the lower-cased query, and otherwise the intent with  *)
(* the largest number of matching keywords, ties going to the earliest of  *)
(* the order admission, exam, scholarship, academic_policy.                *)
(***************************************************************************)
IntentOrder == <<"admission", "exam", "scholarship", "academic_policy">>

\* keyword is a run of consecutive characters of text
Occurs(keyword, text) ==
    \E a \in 1..(Len(text) - Len(keyword) + 1) :
        SubSeq(text, a, a + Len(keyword) - 1) = keyword

\* per intent, the number of entries of its keyword list that occur in text
Matching(text) ==
    [n \in 1..Len(IntentOrder) |->
        Cardinality({k \in DOMAIN intent_keywords[IntentOrder[n]] :
                        Occurs(intent_keywords[IntentOrder[n]][k], text)})]

NoKeywordOccurs(counts) == \A n \in DOMAIN counts : counts[n] = 0

IsDefaultAnswer == classified = [intent |-> "academic_policy", confidence |-> <<1, 2>>]

\* n is the earliest intent among those with the largest number of matching keywords
IsEarliestBest(counts, n) ==
    /\ \A m \in DOMAIN counts : counts[m] <= counts[n]
    /\ \A m \in 1..(n - 1) : counts[m] < counts[n]

PredictIsTotal(counts) ==
    /\ classified.intent \in {IntentOrder[n] : n \in 1..Len(IntentOrder)}
    /\ ~NoKeywordOccurs(counts) => Len(Split(Lower(query))) > 0

ReturnsEarliestBest(counts) ==
    ~NoKeywordOccurs(counts) =>
        \E n \in DOMAIN counts :
            IsEarliestBest(counts, n) /\ classified.intent = IntentOrder[n]

C28_DefaultExactlyWhenNoKeyword ==
    op = "predict" =>
        LET counts == Matching(Lower(query))
        IN  /\ PredictIsTotal(counts)
            /\ IsDefaultAnswer <=> NoKeywordOccurs(counts)
            /\ ReturnsEarliestBest(counts)

(***************************************************************************)
(* C28, amended: as above, except that ("academic_policy", 0.5) is         *)
(* returned whenever no keyword occurs, not only then: a query in which    *)
(* academic_policy is the earliest best intent, with matching keywords     *)
(* numbering a quarter of its words, gets the same pair.                   *)
(***************************************************************************)
C28_DefaultWhenNoKeyword ==
    op = "predict" =>
        LET counts == Matching(Lower(query))
        IN  /\ PredictIsTotal(counts)
            /\ NoKeywordOccurs(counts) => IsDefaultAnswer
            /\ ReturnsEarliestBest(counts)

\* "zzz credit zzz zzz": one keyword of academic_policy in four words
C28_Witness ==
    /\ op = "predict"
    /\ Matching(Lower(query)) = <<0, 0, 0, 1>>
    /\ Len(Split(query)) = 4
    /\ IsDefaultAnswer

\* "Exam credit": exam and academic_policy match once each, exam is returned
C28_TieWitness ==
    /\ op = "predict"
    /\ Matching(Lower(query)) = <<0, 1, 0, 1>>
    /\ classified.intent = "exam"

(***************************************************************************)
(* C29: whenever process_query returns overall status "success", the       *)
(* intent, retrieval, policy and interaction results stored in workflow    *)
(* have status "success" and the policy result carries num_policies; a     *)
(* query whose category-scoped retrieval yields no document is not         *)
(* reported as an overall success.  Stated for the calls in which no stage *)
(* raises and the corpus is the built-in one.                              *)
(***************************************************************************)
ReportedStages == {"intent", "retrieval", "policy", "interaction"}

C29_SuccessMeansEveryStageSucceeded ==
    (/\ op = "process_query"
     /\ faults = {}
     /\ metadata = sample_documents
     /\ ~result.raised
     /\ result.value.status = "success") =>
        LET workflow == result.value.workflow
        IN  /\ \A stage \in ReportedStages :
                   stage \in DOMAIN workflow /\ workflow[stage].status = "success"
            /\ "num_policies" \in workflow["policy"].keys
            /\ workflow["retrieval"].documents_retrieved > 0

(***************************************************************************)
(* C30: in the window at most one worker thread executes process_query at  *)
(* any time: submitting a non-empty query disables the Send button and the *)
(* query input before the worker starts; they are re-enabled only by       *)
(* on_result_received or on_error of that worker; an empty or              *)
(* whitespace-only query never starts a worker; every started worker       *)
(* emits exactly one of finished and error, so the controls are eventually *)
(* re-enabled.                                                             *)
(***************************************************************************)
ActiveWorkers == {w \in DOMAIN gui.workers : gui.workers[w].pc # "done"}

ControlsEnabled == gui.send_button /\ gui.query_input

ControlsDisabled == ~gui.send_button /\ ~gui.query_input

\* the worker's run emits finished or error in this step
EmitsResultOrError(w) ==
    /\ Len(gui'.signals) = Len(gui.signals) + 1
    /\ SubSeq(gui'.signals, 1, Len(gui.signals)) = gui.signals
    /\ gui'.signals[Len(gui'.signals)].worker = w
    /\ gui'.signals[Len(gui'.signals)].signal \in {"finished", "error"}

OneWorkerAtATime ==
    /\ Cardinality(ActiveWorkers) <= 1
    /\ ControlsEnabled \/ ControlsDisabled
    /\ ActiveWorkers # {} => ControlsDisabled
    /\ \A w \in DOMAIN gui.workers : gui.workers[w].query # << >>

WorkerStepsAndControls ==
    \* a worker is started by a non-empty query, with the controls already disabled
    /\ Len(gui'.workers) > Len(gui.workers) =>
           /\ Strip(gui.text) # << >>
           /\ gui'.workers = Append(gui.workers, [query |-> Strip(gui.text), pc |-> "started"])
           /\ ~gui'.send_button /\ ~gui'.query_input
    /\ (op' \in {"clicked", "returnPressed"} /\ Strip(gui.text) = << >>) =>
           gui'.workers = gui.workers /\ gui'.signals = gui.signals
    \* only the slots of the last worker's finished or error signal enable a control
    /\ ((~gui.send_button /\ gui'.send_button) \/ (~gui.query_input /\ gui'.query_input)) =>
           /\ op' \in {"on_result_received", "on_error"}
           /\ Head(gui.signals).signal \in {"finished", "error"}
           /\ Head(gui.signals).worker = Len(gui.workers)
    \* a worker emits finished or error once, as the last step of its run
    /\ \A w \in DOMAIN gui.workers :
           /\ EmitsResultOrError(w) <=>
                  (gui.workers[w].pc # "done" /\ gui'.workers[w].pc = "done")
           /\ gui.workers[w].pc = "done" => gui'.workers[w].pc = "done"

C30_OneWorkerAndControlsReenabled ==
    /\ []OneWorkerAtATime
    /\ [][WorkerStepsAndControls]_vars
    /\ ControlsDisabled ~> ControlsEnabled

\* the second worker is inside process_query after the first one's result was shown
C30_Witness ==
    /\ Len(gui.workers) = 2
    /\ gui.workers[1].pc = "done"
    /\ gui.workers[2].pc = "in_process_query"
    /\ Len(gui.history_table) = 1
    /\ ControlsDisabled

\* an error signal re-enabled the controls
C30_ErrorWitness ==
    /\ op = "on_error"
    /\ ControlsEnabled
    /\ Len(gui.workers) = 1

=============================================================================
